---- MODULE Spec2Model ----
(***************************************************************************)
(* Model of the SSE ConnectionRegistry of the Infisical Kubernetes         *)
(* operator (internal/util/sse/sse.go).                                    *)
(*                                                                         *)
(* One registry is modelled together with the goroutines it spawns         *)
(* (monitorHealth, processStream, reconnectLoop) and its callers           *)
(* (SubscribeWithParams, Close).  Every section of code that runs under    *)
(* r.mu is one atomic action; the steps a goroutine takes outside the      *)
(* mutex are separate actions, so that the interleavings the Go scheduler  *)
(* allows are the interleavings of the model.                              *)
(*                                                                         *)
(* Time is counted in health-check ticks (checkInterval = 30 s).           *)
(*                                                                         *)
(* More parts of the operator are modelled on their own, each with its     *)
(* own initial states and steps: processStream reading the lines of one    *)
(* body, the reconciler writing and collecting the managed objects of one  *)
(* CR (ReconcileInfisicalSecret), the etag of a fetch result, the resync   *)
(* interval (ConvertIntervalToDuration), the entry of one CR in            *)
(* resourceVariablesMap with its authentication and its event stream, and  *)
(* the registry of a CR that CloseInstantUpdatesStream closes.             *)
(***************************************************************************)
EXTENDS Integers, Sequences, FiniteSets, Bags, TLC

(***************************************************************************)
(* Bounds of the model                                                     *)
(***************************************************************************)
\* connection metas and reconnect loops in existence at the same time
MaxObjects == 2
\* the events written on a body
MaxEvents == 2
\* the secrets of a fetch result
MaxSecrets == 2
\* the characters of a resync interval before its unit
MaxDigits == 5

(***************************************************************************)
(* Program constants                                                       *)
(***************************************************************************)
\* DefaultReconnectConfig, in seconds
MaxRetries == 5
InitialBackoff == 1
MaxBackoff == 30
BackoffFactor == 2
\* monitorHealth, in seconds
checkInterval == 30
pingTimeout == 120

(***************************************************************************)
(* Errors.  An error is its message, a sequence of words; nil is the empty *)
(* sequence.  fmt.Errorf("prefix: %w", err) puts words in front of the     *)
(* wrapped message.                                                        *)
(***************************************************************************)
NoErr == << >>

\* the upstream's JSON {"message": ...} of a plan-gated subscribe
PlanMessage == <<"not", "available", "on", "your", "current", "plan">>
\* the upstream's message of a 5xx answer
ServerErrorMessage == <<"Internal", "Server", "Error">>

\* api.CallSubscribeProjectEvents: the error of an unsuccessful response
UnsuccessfulResponse(message) == <<"CallSubscribeProjectEvents", "Unsuccessful", "response", "message">> \o message

\* what an open operation (requestFn) can return: nil error (a response), or
\* the error of CallSubscribeProjectEvents
OpenErrors == {NoErr, UnsuccessfulResponse(ServerErrorMessage), UnsuccessfulResponse(PlanMessage)}

\* what scanner.Err() can be on a body that was not closed by the registry
ReadErrors == { <<"connection", "reset", "by", "peer">>,
                <<"unexpected", "EOF">>,
                <<"stream", "error", "plan", "not", "available">> }

RegistryClosedErr == <<"registry", "is", "closed">>

ToLowerWord(w) ==
    CASE w = "EOF" -> "eof"
      [] w = "Internal" -> "internal"
      [] w = "Server" -> "server"
      [] w = "Error" -> "error"
      [] w = "CallSubscribeProjectEvents" -> "callsubscribeprojectevents"
      [] w = "Unsuccessful" -> "unsuccessful"
      [] w = "SSE" -> "sse"
      [] OTHER -> w

\* strings.ToLower
ToLower(msg) == [i \in 1..Len(msg) |-> ToLowerWord(msg[i])]

\* strings.Contains, on words
Contains(msg, phrase) ==
    \E i \in 1..(Len(msg) - Len(phrase) + 1) :
        SubSeq(msg, i, i + Len(phrase) - 1) = phrase

isPermanentError(err) ==
    /\ err # NoErr
    /\ LET errMsg == ToLower(err)
       IN \/ Contains(errMsg, <<"not", "available", "on", "your", "current", "plan">>)
          \/ (Contains(errMsg, <<"plan">>) /\ Contains(errMsg, <<"not", "available">>))

(***************************************************************************)
(* SubscriptionParams                                                      *)
(***************************************************************************)
Params(p, e, s) == [ProjectID |-> p, EnvSlug |-> e, SecretsPath |-> s]

\* SubscriptionParams{}
EmptyParams == Params("", "", "")

\* the params callers subscribe with
ParamsSet == { Params("p1", "e1", "/a"), Params("p1", "e1", "/b") }

\* Equals with EnvSlug and SecretsPath crossed: a slip that makes no two
\* params of a subscription equal
EqualsCrossed(p, other) ==
    /\ p.ProjectID = other.ProjectID
    /\ p.EnvSlug = other.SecretsPath
    /\ p.SecretsPath = other.EnvSlug

\* SubscriptionParams.Equals
Equals(p, other) ==
    /\ p.ProjectID = other.ProjectID
    /\ p.EnvSlug = other.EnvSlug
    /\ p.SecretsPath = other.SecretsPath



(***************************************************************************)
(* State                                                                   *)
(*                                                                         *)
(* r.conn is a pointer that may be nil: conn is the empty sequence or the  *)
(* sequence of one meta.  The metas r.conn no longer points to and the     *)
(* reconnect loops have no name in the program, so each is kept as a bag   *)
(* of records.                                                             *)
(***************************************************************************)
VARIABLES
    conn,           \* r.conn: << >> is nil, <<meta>> the ConnectionMeta in the slot
    orphans,        \* the metas that left the slot and are not gone yet
    ctxDone,        \* r.ctx is cancelled
    requestFn,      \* r.requestFn: 0 is nil
    monitor,        \* the monitorHealth goroutine
    loops,          \* the reconnectLoop goroutines
    closer,         \* the caller of Close
    okFn,           \* the requestFn of the latest SubscribeWithParams that returned nil
    budget,         \* what a run has room for: objects, params, open operations, events
    stream,         \* a body read by processStream on its own
    kube,           \* the CR, its descriptors and its managed objects
    hashes,         \* two fetch results and their etags
    resync,         \* a resync interval and what ConvertIntervalToDuration makes of it
    crState,        \* a CR as the controller holds it: its entry of resourceVariablesMap
    flow,           \* where each goroutine of a registry is in its code, and who holds r.mu
    config          \* the globals of package config, and the CRs that write and read them

vars == <<conn, orphans, ctxDone, requestFn, monitor, loops, closer, okFn, budget, stream, kube,
         hashes, resync, crState, flow, config>>

Min(a, b) == IF a < b THEN a ELSE b

\* bag b with one copy of x added, taken out, replaced by y
Add(b, x) == b (+) SetToBag({x})
Remove(b, x) == b (-) SetToBag({x})
Replace(b, x, y) == Add(Remove(b, x), y)

(***************************************************************************)
(* Events on the wire                                                      *)
(*                                                                         *)
(* A string is a sequence of tokens, "" the empty sequence; ":" , " " and  *)
(* "\n" are tokens of their own, so that the byte search, the one-space    *)
(* strip and the data separator act on them as they do on the bytes.       *)
(* Event.Retry is never assigned and is left out.                          *)
(***************************************************************************)
\* Event{}
EmptyEvent == [ ID |-> << >>, Event |-> << >>, Data |-> << >> ]

\* strings.IndexByte, counted from 1; 0 when the byte is not there
IndexByte(line, c) ==
    IF \E i \in 1..Len(line) : line[i] = c
    THEN CHOOSE i \in 1..Len(line) : line[i] = c /\ \A j \in 1..(i - 1) : line[j] # c
    ELSE 0

WhiteSpace == {" ", "\t", "\r", "\n"}

\* strings.TrimSpace
RECURSIVE TrimSpace(_)
TrimSpace(s) ==
    IF s = << >> THEN s
    ELSE IF s[1] \in WhiteSpace THEN TrimSpace(Tail(s))
    ELSE IF s[Len(s)] \in WhiteSpace THEN TrimSpace(SubSeq(s, 1, Len(s) - 1))
    ELSE s

\* parseLine: the event and the data builder after the line
parseLine(line, event, dataBuilder) ==
    LET colonIndex == IndexByte(line, ":")
        field == SubSeq(line, 1, colonIndex - 1)
        raw == SubSeq(line, colonIndex + 1, Len(line))
        value == IF Len(raw) > 0 /\ raw[1] = " " THEN Tail(raw) ELSE raw
    IN IF colonIndex = 0 THEN [ event |-> event, dataBuilder |-> dataBuilder ]
       ELSE IF field = <<"data">>
       THEN [ event |-> event,
              dataBuilder |-> IF Len(dataBuilder) > 0 THEN dataBuilder \o <<"\n">> \o value
                              ELSE dataBuilder \o value ]
       ELSE IF field = <<"event">> THEN [ event |-> [event EXCEPT !.Event = value], dataBuilder |-> dataBuilder ]
       ELSE IF field = <<"id">> THEN [ event |-> [event EXCEPT !.ID = value], dataBuilder |-> dataBuilder ]
       \* "retry", the comment field "" and unknown fields are ignored
       ELSE [ event |-> event, dataBuilder |-> dataBuilder ]

\* isPingEvent
isPingEvent(event) ==
    \/ event.Event = <<"ping">>
    \/ event.Event = << >> /\ TrimSpace(event.Data) = <<"1">>

\* var currentEvent Event; var dataBuilder strings.Builder
NewScanner == [ currentEvent |-> EmptyEvent, dataBuilder |-> << >> ]

\* one turn of processStream's loop on a line: the scanner state after it
\* and what the turn did, nothing (<< >>), a ping taken or an event handed
\* to onEvent.  An empty line ends an event only if currentEvent has a name
\* or data, and the data is moved out of the builder after that test
ScanLine(sc, line) ==
    IF line = << >>
    THEN IF sc.currentEvent.Data # << >> \/ sc.currentEvent.Event # << >>
         THEN LET event == IF Len(sc.dataBuilder) > 0
                           THEN [sc.currentEvent EXCEPT !.Data = sc.dataBuilder]
                           ELSE sc.currentEvent
              IN [ scanner |-> NewScanner,
                   did |-> <<[ ping |-> isPingEvent(event), event |-> event ]>> ]
         ELSE [ scanner |-> sc, did |-> << >> ]
    ELSE LET parsed == parseLine(line, sc.currentEvent, sc.dataBuilder)
         IN [ scanner |-> [ currentEvent |-> parsed.event, dataBuilder |-> parsed.dataBuilder ],
              did |-> << >> ]

\* the loop over the lines: the scanner state after them and, in order, what
\* the turns did
RECURSIVE ScanLines(_, _)
ScanLines(sc, lines) ==
    IF lines = << >> THEN [ scanner |-> sc, did |-> << >> ]
    ELSE LET first == ScanLine(sc, Head(lines))
             rest == ScanLines(first.scanner, Tail(lines))
         IN [ scanner |-> rest.scanner, did |-> first.did \o rest.did ]

\* the lines of an event in the wire format: its id, its name, one data line
\* for each line of its data, and the empty line that ends it.  w.Data is
\* the sequence of the data's lines
RECURSIVE DataLines(_)
DataLines(ds) ==
    IF ds = << >> THEN << >> ELSE <<(<<"data", ":", " ">> \o Head(ds))>> \o DataLines(Tail(ds))

Wire(w) ==
    (IF w.ID # << >> THEN <<(<<"id", ":", " ">> \o w.ID)>> ELSE << >>)
      \o (IF w.Event # << >> THEN <<(<<"event", ":", " ">> \o w.Event)>> ELSE << >>)
      \o DataLines(w.Data)
      \o << << >> >>

\* the lines of a data field as one string
RECURSIVE JoinLines(_)
JoinLines(ds) ==
    IF ds = << >> THEN << >>
    ELSE IF Len(ds) = 1 THEN ds[1]
    ELSE ds[1] \o <<"\n">> \o JoinLines(Tail(ds))

\* the event that was written, as an Event
Written(w) == [ ID |-> w.ID, Event |-> w.Event, Data |-> JoinLines(w.Data) ]

\* the server's keepalive, its heartbeat and an update of a secret
Keepalive == [ ID |-> << >>, Event |-> <<"ping">>, Data |-> << >> ]
Heartbeat == [ ID |-> << >>, Event |-> << >>, Data |-> << <<"1">> >> ]
Update == [ ID |-> <<"7">>, Event |-> <<"secret", ":", "update">>, Data |-> << <<"{}">> >> ]

\* what the reader does with an event it reads from a fresh event boundary:
\* "ping", "event" or "none".  The name alone decides, and the name is
\* empty at every boundary, whatever the events before left in the builder
Received(w) ==
    LET did == ScanLines(NewScanner, Wire(w)).did
    IN IF did = << >> THEN "none" ELSE IF did[1].ping THEN "ping" ELSE "event"

\* the events of a body: those named above, an event of data alone, one
\* with two lines of data and one whose data holds a colon and a space
WireEvents ==
    { Keepalive, Heartbeat, Update,
      [ ID |-> << >>, Event |-> << >>, Data |-> << <<"a">> >> ],
      [ ID |-> << >>, Event |-> <<"add">>, Data |-> << <<"a">>, <<"b">> >> ],
      [ ID |-> <<"8">>, Event |-> <<"add">>, Data |-> << <<"k", ":", " ", "v">> >> ] }

\* a body with the events ws, before processStream reads it: the events
\* written, the lines not yet scanned, the scanner state and, for every
\* empty line scanned, what the turn did
NewStream(ws) ==
    LET RECURSIVE wireAll(_)
        wireAll(rest) == IF rest = << >> THEN << >> ELSE Wire(Head(rest)) \o wireAll(Tail(rest))
    IN [ sent |-> ws, lines |-> wireAll(ws), scanner |-> NewScanner, did |-> << >> ]

\* no body
NoStream == NewStream(<< >>)

(***************************************************************************)
(* Managed objects: labels, annotations and their tracking markers         *)
(*                                                                         *)
(* A map[string]string is a function from its keys to their values; keys   *)
(* and annotation values are strings, that is sequences of tokens, with    *)
(* "," and " " tokens of their own.                                        *)
(***************************************************************************)
EmptyMap == [k \in {} |-> << >>]

\* m[k] of a Go map: the zero value "" for a key that is not there
Lookup(m, k) == IF k \in DOMAIN m THEN m[k] ELSE << >>

\* m[k] = v
MapPut(m, k, v) == [x \in DOMAIN m \cup {k} |-> IF x = k THEN v ELSE m[x]]

\* for k, v := range over { m[k] = v }
Merge(m, over) == [x \in DOMAIN m \cup DOMAIN over |-> IF x \in DOMAIN over THEN over[x] ELSE m[x]]

\* the entries of m whose key is in S
Only(m, S) == [x \in DOMAIN m \cap S |-> m[x]]

\* strings.HasPrefix
HasPrefix(s, prefix) == Len(s) >= Len(prefix) /\ SubSeq(s, 1, Len(prefix)) = prefix

SYSTEM_PREFIXES == {<<"kubectl.kubernetes.io/">>, <<"kubernetes.io/">>, <<"k8s.io/">>, <<"helm.sh/">>}

\* the isSystem loop over SYSTEM_PREFIXES
isSystem(k) == \E prefix \in SYSTEM_PREFIXES : HasPrefix(k, prefix)

\* the keys of the three markers
MANAGED_LABELS_ANNOTATION == <<"secrets.infisical.com/managed-labels">>
MANAGED_ANNOTATIONS_ANNOTATION == <<"secrets.infisical.com/managed-annotations">>
SECRET_VERSION_ANNOTATION == <<"secrets.infisical.com/version">>
Markers == {MANAGED_LABELS_ANNOTATION, MANAGED_ANNOTATIONS_ANNOTATION, SECRET_VERSION_ANNOTATION}

\* the tokens of the keys in byte order, for sort.Strings
TokenOrder ==
    << "kubectl.kubernetes.io/", "note", "owner", "restartedAt",
       "secrets.infisical.com/managed-annotations", "secrets.infisical.com/managed-labels",
       "secrets.infisical.com/version", "team", "tier" >>

\* a < b of two strings
RECURSIVE Less(_, _)
Less(a, b) ==
    IF b = << >> THEN FALSE
    ELSE IF a = << >> THEN TRUE
    ELSE IF Head(a) = Head(b) THEN Less(Tail(a), Tail(b))
    ELSE LET rank(token) == CHOOSE i \in 1..Len(TokenOrder) : TokenOrder[i] = token
         IN rank(Head(a)) < rank(Head(b))

\* sort.Strings of the keys
RECURSIVE SortStrings(_)
SortStrings(keys) ==
    IF keys = {} THEN << >>
    ELSE LET least == CHOOSE k \in keys : \A other \in keys \ {k} : Less(k, other)
         IN <<least>> \o SortStrings(keys \ {least})

\* strings.Join
RECURSIVE Join(_, _)
Join(list, sep) ==
    IF list = << >> THEN << >>
    ELSE IF Len(list) = 1 THEN list[1]
    ELSE list[1] \o sep \o Join(Tail(list), sep)

\* strings.Split on the one-byte separator sep
RECURSIVE Split(_, _)
Split(s, sep) ==
    LET at == IndexByte(s, sep)
    IN IF at = 0 THEN <<s>>
       ELSE <<SubSeq(s, 1, at - 1)>> \o Split(SubSeq(s, at + 1, Len(s)), sep)

\* formatManagedKeys that joins the keys with a space
formatManagedKeysSpaced(keys) ==
    IF keys = {} THEN << >> ELSE Join(SortStrings(keys), <<" ">>)

\* formatManagedKeys
formatManagedKeys(keys) ==
    IF keys = {} THEN << >> ELSE Join(SortStrings(keys), <<",">>)

\* parseManagedKeys
parseManagedKeys(value) ==
    IF value = << >> THEN {}
    ELSE LET keys == Split(value, ",")
         IN {TrimSpace(keys[i]) : i \in 1..Len(keys)} \ {<< >>}

\* the keys of m that have no system prefix
NonSystemKeys(m) == {k \in DOMAIN m : ~isSystem(k)}

\* syncLabelsAndAnnotations that keeps every existing label
syncLabelsAndAnnotationsKeepAll(infisicalSecret, existingAnnotations, existingLabels) ==
    LET previouslyManagedAnnotations ==
            parseManagedKeys(Lookup(existingAnnotations, MANAGED_ANNOTATIONS_ANNOTATION))
        kept == {k \in DOMAIN existingAnnotations :
                    isSystem(k) \/ k \in Markers \/ k \notin previouslyManagedAnnotations}
        newAnnotations ==
            Merge(Only(existingAnnotations, kept),
                  Only(infisicalSecret.Annotations, NonSystemKeys(infisicalSecret.Annotations)))
    IN [ annotations |->
            MapPut(MapPut(newAnnotations, MANAGED_LABELS_ANNOTATION,
                          formatManagedKeys(DOMAIN infisicalSecret.Labels)),
                   MANAGED_ANNOTATIONS_ANNOTATION,
                   formatManagedKeys(NonSystemKeys(infisicalSecret.Annotations))),
         labels |-> Merge(existingLabels, infisicalSecret.Labels) ]

\* syncLabelsAndAnnotations: the annotations and the labels of the update
syncLabelsAndAnnotations(infisicalSecret, existingAnnotations, existingLabels) ==
    LET previouslyManagedLabels ==
            parseManagedKeys(Lookup(existingAnnotations, MANAGED_LABELS_ANNOTATION))
        previouslyManagedAnnotations ==
            parseManagedKeys(Lookup(existingAnnotations, MANAGED_ANNOTATIONS_ANNOTATION))
        newLabels ==
            Merge(Only(existingLabels, DOMAIN existingLabels \ previouslyManagedLabels),
                  infisicalSecret.Labels)
        kept == {k \in DOMAIN existingAnnotations :
                    isSystem(k) \/ k \in Markers \/ k \notin previouslyManagedAnnotations}
        newAnnotations ==
            Merge(Only(existingAnnotations, kept),
                  Only(infisicalSecret.Annotations, NonSystemKeys(infisicalSecret.Annotations)))
    IN [ annotations |->
            MapPut(MapPut(newAnnotations, MANAGED_LABELS_ANNOTATION,
                          formatManagedKeys(DOMAIN infisicalSecret.Labels)),
                   MANAGED_ANNOTATIONS_ANNOTATION,
                   formatManagedKeys(NonSystemKeys(infisicalSecret.Annotations))),
         labels |-> newLabels ]

(***************************************************************************)
(* Managed objects: the etag and the writes                                *)
(***************************************************************************)
\* a model.SingleEnvironmentVariable
Variable(key, value) == [ Key |-> <<key>>, Value |-> <<value>>, SecretPath |-> <<"/">> ]

\* fmt.Sprintf("%v", plainTextSecretsFromApi): the structs in the order of
\* the slice, each as its fields in braces
RECURSIVE FormatSlice(_)
FormatSlice(secrets) ==
    IF secrets = << >> THEN << >>
    ELSE LET s == Head(secrets)
             struct == <<"{">> \o s.Key \o <<" ">> \o s.Value \o <<" ">> \o s.SecretPath \o <<"}">>
         IN IF Len(secrets) = 1 THEN struct
            ELSE struct \o <<" ">> \o FormatSlice(Tail(secrets))

Sprintf(secrets) == <<"[">> \o FormatSlice(secrets) \o <<"]">>

\* crypto.ComputeEtag: a digest of the bytes, equal for equal bytes and,
\* collisions apart, different for different bytes
ComputeEtag(data) == <<"W/">> \o data

\* newEtag := crypto.ComputeEtag([]byte(fmt.Sprintf("%v", plainTextSecretsFromApi)))
newEtag(secrets) == ComputeEtag(Sprintf(secrets))

\* plainProcessedSecrets without a template: a later entry of a key wins
RECURSIVE plainProcessedSecrets(_)
plainProcessedSecrets(secrets) ==
    IF secrets = << >> THEN EmptyMap
    ELSE LET last == secrets[Len(secrets)]
         IN Merge(plainProcessedSecrets(SubSeq(secrets, 1, Len(secrets) - 1)),
                  [k \in {last.Key} |-> last.Value])

\* the kinds of managed object
Kinds == {"Secret", "ConfigMap"}

\* createInfisicalManagedKubeResource: the object handed to Client.Create.
\* owner is the controller reference to the CR; seen is the CR's label and
\* annotation keys at the latest write of the object by the reconciler
createInfisicalManagedKubeResource(infisicalSecret, ref, secrets, ETag, resourceType) ==
    LET tracked ==
            MapPut(MapPut(Only(infisicalSecret.Annotations, NonSystemKeys(infisicalSecret.Annotations)),
                          MANAGED_LABELS_ANNOTATION,
                          formatManagedKeys(DOMAIN infisicalSecret.Labels)),
                   MANAGED_ANNOTATIONS_ANNOTATION,
                   formatManagedKeys(NonSystemKeys(infisicalSecret.Annotations)))
    IN [ labels |-> infisicalSecret.Labels,
         annotations |-> IF resourceType = "Secret"
                         THEN MapPut(tracked, SECRET_VERSION_ANNOTATION, ETag)
                         ELSE tracked,
         data |-> plainProcessedSecrets(secrets),
         owner |-> ref.CreationPolicy = "Owner",
         seen |-> <<[ labels |-> DOMAIN infisicalSecret.Labels,
                      annotations |-> DOMAIN infisicalSecret.Annotations ]>> ]

\* updateInfisicalManagedKubeSecret: the object handed to Client.Update
updateInfisicalManagedKubeSecret(infisicalSecret, ref, managedKubeSecret, secrets, ETag) ==
    LET new == syncLabelsAndAnnotations(infisicalSecret, managedKubeSecret.annotations,
                                        managedKubeSecret.labels)
    IN [managedKubeSecret EXCEPT
            !.labels = new.labels,
            !.annotations = MapPut(new.annotations, SECRET_VERSION_ANNOTATION, ETag),
            !.data = plainProcessedSecrets(secrets),
            !.seen = <<[ labels |-> DOMAIN infisicalSecret.Labels,
                         annotations |-> DOMAIN infisicalSecret.Annotations ]>>]

\* updateInfisicalManagedConfigMap: the object handed to Client.Update
updateInfisicalManagedConfigMap(infisicalSecret, ref, managedConfigMap, secrets, ETag) ==
    LET new == syncLabelsAndAnnotations(infisicalSecret, managedConfigMap.annotations,
                                        managedConfigMap.labels)
    IN [managedConfigMap EXCEPT
            !.labels = new.labels,
            !.annotations = MapPut(new.annotations, SECRET_VERSION_ANNOTATION, ETag),
            !.data = plainProcessedSecrets(secrets),
            !.seen = <<[ labels |-> DOMAIN infisicalSecret.Labels,
                         annotations |-> DOMAIN infisicalSecret.Annotations ]>>]

\* the object of the kind after the loop over the kind's descriptors: refs
\* is the descriptor list of the kind, found is what the Get returned
Write(infisicalSecret, refs, found, secrets, resourceType) ==
    IF refs = << >> THEN found
    ELSE IF found = << >>
    THEN <<createInfisicalManagedKubeResource(infisicalSecret, refs[1], secrets,
                                              newEtag(secrets), resourceType)>>
    ELSE IF resourceType = "Secret"
    THEN <<updateInfisicalManagedKubeSecret(infisicalSecret, refs[1], found[1], secrets,
                                            newEtag(secrets))>>
    ELSE <<updateInfisicalManagedConfigMap(infisicalSecret, refs[1], found[1], secrets,
                                           newEtag(secrets))>>

\* secretOwnerReferences, configMapOwnerReferences: the name of the kind is
\* referenced with the policy Owner
OwnerReferences(refs) == refs # << >> /\ refs[1].CreationPolicy = "Owner"

\* isOwnedByInfisicalSecret
isOwnedByInfisicalSecret(obj) == obj.owner

\* what can go wrong in the cleanup
Failures == {"none", "listSecrets", "listConfigMaps", "delete"}

\* deleteUnreferencedOwnedResources that never deletes
deleteUnreferencedOwnedResourcesNever(objs, secretOwnerReferences, configMapOwnerReferences, failure) ==
    objs

\* deleteUnreferencedOwnedResources: the objects after it; a failed List
\* ends it, a failed Delete is logged
deleteUnreferencedOwnedResources(objs, secretOwnerReferences, configMapOwnerReferences, failure) ==
    IF failure = "listSecrets" THEN objs
    ELSE LET secretGone ==
                 /\ objs.Secret # << >>
                 /\ isOwnedByInfisicalSecret(objs.Secret[1])
                 /\ ~secretOwnerReferences
                 /\ failure # "delete"
             afterSecrets == IF secretGone THEN [objs EXCEPT !.Secret = << >>] ELSE objs
             configMapGone ==
                 /\ objs.ConfigMap # << >>
                 /\ isOwnedByInfisicalSecret(objs.ConfigMap[1])
                 /\ ~configMapOwnerReferences
                 /\ failure # "delete"
         IN IF failure = "listConfigMaps" THEN afterSecrets
            ELSE IF configMapGone THEN [afterSecrets EXCEPT !.ConfigMap = << >>]
            ELSE afterSecrets

(***************************************************************************)
(* Managed objects: templates                                              *)
(*                                                                         *)
(* A template is a string of tokens with at most one action, written       *)
(* "{{" key field "}}" for {{ .key.field }}.  A descriptor's Template is   *)
(* << >> for nil or the sequence of one SecretTemplate.                    *)
(***************************************************************************)
\* tpl.New(...).Parse(userTemplate) and tmpl.Execute(buf, secretKeyValue):
\* an action that is not closed or not a field chain of two does not compile,
\* a field that model.SecretTemplateOptions does not have does not execute,
\* a key that is not in the map gives the zero value
Render(userTemplate, secretKeyValue) ==
    LET open == IndexByte(userTemplate, "{{")
        close == IndexByte(userTemplate, "}}")
        action == SubSeq(userTemplate, open + 1, close - 1)
    IN IF open = 0 THEN [ out |-> userTemplate, err |-> "" ]
       ELSE IF close < open \/ Len(action) # 2 THEN [ out |-> << >>, err |-> "compile" ]
       ELSE IF action[2] \notin {"Value", "SecretPath"} THEN [ out |-> << >>, err |-> "execute" ]
       ELSE [ out |-> SubSeq(userTemplate, 1, open - 1)
                        \o secretKeyValue[<<action[1]>>][action[2]]
                        \o SubSeq(userTemplate, close + 1, Len(userTemplate)),
              err |-> "" ]

\* the orders in which `range managedTemplateData.Data` can visit the keys
Orders(keys) ==
    {order \in [1..Cardinality(keys) -> keys] :
        \A i, j \in 1..Cardinality(keys) : order[i] = order[j] => i = j}

\* plainProcessedSecrets with templates that a failed template does not
\* stop: the key is left out and no error is returned
ProcessedSkipsFailed(managedTemplateData, secretsFromAPI, order) ==
    LET secretKeyValue ==
            [key \in {<<k>> : k \in {"FOO", "BAR"}} |->
                LET at == {i \in 1..Len(secretsFromAPI) : secretsFromAPI[i].Key = key}
                IN IF at = {} THEN [ Value |-> << >>, SecretPath |-> << >> ]
                   ELSE secretsFromAPI[CHOOSE i \in at : \A j \in at : j <= i]]
        RECURSIVE walk(_, _)
        walk(rest, data) ==
            IF rest = << >> THEN [ data |-> data, err |-> NoErr ]
            ELSE LET done == Render(managedTemplateData[1].Data[Head(rest)], secretKeyValue)
                 IN IF done.err # "" THEN walk(Tail(rest), data)
                    ELSE walk(Tail(rest), MapPut(data, Head(rest), done.out))
    IN IF managedTemplateData = << >>
       THEN [ data |-> plainProcessedSecrets(secretsFromAPI), err |-> NoErr ]
       ELSE walk(order, IF managedTemplateData[1].IncludeAllSecrets
                        THEN plainProcessedSecrets(secretsFromAPI) ELSE EmptyMap)

\* plainProcessedSecrets of createInfisicalManagedKubeResource and of the two
\* update functions, or the error of the first template that fails in the
\* order the map is visited
Processed(managedTemplateData, secretsFromAPI, order) ==
    LET secretKeyValue ==
            [key \in {<<k>> : k \in {"FOO", "BAR"}} |->
                LET at == {i \in 1..Len(secretsFromAPI) : secretsFromAPI[i].Key = key}
                IN IF at = {} THEN [ Value |-> << >>, SecretPath |-> << >> ]
                   ELSE secretsFromAPI[CHOOSE i \in at : \A j \in at : j <= i]]
        RECURSIVE walk(_, _)
        walk(rest, data) ==
            IF rest = << >> THEN [ data |-> data, err |-> NoErr ]
            ELSE LET done == Render(managedTemplateData[1].Data[Head(rest)], secretKeyValue)
                 IN IF done.err # ""
                    THEN [ data |-> data,
                           err |-> <<"unable", "to", done.err, "template">> \o Head(rest) ]
                    ELSE walk(Tail(rest), MapPut(data, Head(rest), done.out))
    IN IF managedTemplateData = << >>
       THEN [ data |-> plainProcessedSecrets(secretsFromAPI), err |-> NoErr ]
       ELSE walk(order, IF managedTemplateData[1].IncludeAllSecrets
                        THEN plainProcessedSecrets(secretsFromAPI) ELSE EmptyMap)

\* ReconcileInfisicalSecret from the fetch on, for descriptors with
\* templates: the loop over the secret descriptors, the loop over the config
\* map descriptors and the cleanup, left at the first error.  k holds the CR,
\* its descriptors and the objects; orders gives the order of each kind's
\* template keys
Reconciled(k, secrets, failure, orders) ==
    LET processed(kind) == Processed(k.refs[kind][1].Template, secrets, orders[kind])
        failed(kind) == k.refs[kind] # << >> /\ processed(kind).err # NoErr
        error(kind) ==
            <<"failed", "to", IF k.objs[kind] = << >> THEN "create" ELSE "update", "managed">>
              \o (IF kind = "Secret" THEN <<"secret">> ELSE <<"config", "map">>)
              \o processed(kind).err
        written(kind) ==
            IF k.refs[kind] = << >> THEN k.objs[kind]
            ELSE <<[Write(k.cr, k.refs[kind], k.objs[kind], secrets, kind)[1]
                        EXCEPT !.data = processed(kind).data]>>
    IN IF failed("Secret")
       THEN [ objs |-> k.objs, err |-> error("Secret"), cleaned |-> FALSE ]
       ELSE IF failed("ConfigMap")
       THEN [ objs |-> [k.objs EXCEPT !.Secret = written("Secret")],
              err |-> error("ConfigMap"), cleaned |-> FALSE ]
       ELSE [ objs |-> deleteUnreferencedOwnedResources(
                           [kind \in Kinds |-> written(kind)],
                           OwnerReferences(k.refs.Secret), OwnerReferences(k.refs.ConfigMap),
                           failure),
              err |-> NoErr, cleaned |-> TRUE ]

\* the labels and annotations of the CR and of objects that exist before the
\* reconciler writes them
Labels(keys, value) == [k \in keys |-> value]
Annotations(keys, value) == [k \in keys |-> <<value>>]

Team == <<"team">>
Tier == <<"tier">>
Owner == <<"owner">>
Note == <<"note">>
RestartedAt == <<"kubectl.kubernetes.io/", "restartedAt">>

\* a secret somebody created by hand, with a label and a hand-written marker
Foreign ==
    [ labels |-> Labels({Team, Owner}, "ops"),
      annotations |-> [k \in {MANAGED_LABELS_ANNOTATION} |-> <<" ">> \o Team \o <<" ", ",">>],
      data |-> EmptyMap,
      owner |-> FALSE,
      seen |-> << >> ]

\* two fetch results whose etags are not computed yet
NewHashes(a, b) == [ fetched |-> <<a, b>>, etag |-> << << >>, << >> >> ]

NoHashes == NewHashes(<< >>, << >>)

\* no CR and no objects
NoKube ==
    [ cr |-> [ Labels |-> EmptyMap, Annotations |-> EmptyMap ],
      refs |-> [kind \in Kinds |-> << >>],
      objs |-> [kind \in Kinds |-> << >>],
      did |-> [kind \in Kinds |-> "none"] ]

(***************************************************************************)
(* ConvertIntervalToDuration.  A string is the sequence of its characters, *)
(* a *string the sequence of at most one string.  A time.Duration is an    *)
(* int64 of nanoseconds, kept as its bytes in two's complement, the low    *)
(* byte first, so that a product wraps as the program's does.              *)
(***************************************************************************)
\* the bytes of an int64
Int64 == 8

\* strconv.Atoi on a string of fewer than 19 characters: an optional sign,
\* then digits only and at least one; n = n*10 + (ch - '0') over the digits
Atoi(s) ==
    LET signed == s # << >> /\ Head(s) \in {"+", "-"}
        digits == IF signed THEN Tail(s) ELSE s
        zeroToNine == <<"0", "1", "2", "3", "4", "5", "6", "7", "8", "9">>
        value(ch) == (CHOOSE i \in 1..10 : zeroToNine[i] = ch) - 1
        RECURSIVE decimal(_, _)
        decimal(rest, n) ==
            IF rest = << >> THEN n ELSE decimal(Tail(rest), n * 10 + value(Head(rest)))
    IN IF digits = << >> \/ \E i \in 1..Len(digits) : \A j \in 1..10 : zeroToNine[j] # digits[i]
       THEN [ n |-> 0, err |-> <<"strconv.Atoi", ":", "parsing", ":", "invalid", "syntax">> ]
       ELSE [ n |-> IF signed /\ Head(s) = "-" THEN 0 - decimal(digits, 0) ELSE decimal(digits, 0),
              err |-> NoErr ]

\* the integer n in w bytes
RECURSIVE Bytes(_, _)
Bytes(n, w) == IF w = 0 THEN << >> ELSE <<n % 256>> \o Bytes(n \div 256, w - 1)

\* a * b of two integers of the same width, wrapped to that width: a times
\* the low byte of b, plus a times the rest of b one byte up
RECURSIVE Times(_, _)
Times(a, b) ==
    LET RECURSIVE scale(_, _, _)
        scale(u, byte, c) ==
            IF u = << >> THEN << >>
            ELSE LET x == Head(u) * byte + c IN <<x % 256>> \o scale(Tail(u), byte, x \div 256)
        RECURSIVE plus(_, _, _)
        plus(u, v, c) ==
            IF u = << >> THEN << >>
            ELSE LET x == Head(u) + Head(v) + c IN <<x % 256>> \o plus(Tail(u), Tail(v), x \div 256)
        low == scale(a, Head(b), 0)
    IN IF b = << >> THEN << >>
       ELSE IF Len(b) = 1 THEN low
       ELSE <<Head(low)>> \o plus(Tail(low), Times(SubSeq(a, 1, Len(a) - 1), Tail(b)), 0)

\* time.Duration(n)
Duration(n) == Bytes(n, Int64)

\* time.Hour, as time.Minute and time.Second make it
Hour ==
    LET Second == Times(Duration(1000), Times(Duration(1000), Duration(1000)))
        Minute == Times(Duration(60), Second)
    IN [ Second |-> Second, Minute |-> Minute, Hour |-> Times(Duration(60), Minute) ]

ConvertIntervalToDuration(resyncInterval) ==
    IF resyncInterval = << >> \/ resyncInterval[1] = << >>
    THEN [ duration |-> Duration(0), err |-> NoErr ]
    ELSE LET length == Len(resyncInterval[1])
             unit == resyncInterval[1][length]
             numberPart == SubSeq(resyncInterval[1], 1, length - 1)
             parsed == Atoi(numberPart)
             number == parsed.n
         IN IF length < 2
            THEN [ duration |-> Duration(0), err |-> <<"invalid", "format">> ]
            ELSE IF parsed.err # NoErr THEN [ duration |-> Duration(0), err |-> parsed.err ]
            ELSE IF unit = "s"
            THEN IF number < 5
                 THEN [ duration |-> Duration(0),
                        err |-> <<"resync", "interval", "must", "be", "at", "least", "5", "seconds">> ]
                 ELSE [ duration |-> Times(Duration(number), Hour.Second), err |-> NoErr ]
            ELSE IF unit = "m"
            THEN [ duration |-> Times(Duration(number), Hour.Minute), err |-> NoErr ]
            ELSE IF unit = "h"
            THEN [ duration |-> Times(Duration(number), Hour.Hour), err |-> NoErr ]
            ELSE IF unit = "d"
            THEN [ duration |-> Times(Times(Duration(number), Duration(24)), Hour.Hour),
                   err |-> NoErr ]
            ELSE IF unit = "w"
            THEN [ duration |-> Times(Times(Times(Duration(number), Duration(7)), Duration(24)),
                                      Hour.Hour),
                   err |-> NoErr ]
            ELSE [ duration |-> Duration(0), err |-> <<"invalid", "time", "unit">> ]

\* nil, the empty string, and the strings of up to that many characters of a
\* number and a last character
Intervals(digits) ==
    {<< >>, <<<< >>>>}
      \cup UNION { { <<Append(number, last)>> :
                       number \in [1..n -> {"0", "4", "5", "9", "-"}],
                       last \in {"s", "m", "h", "d", "w", "x", "5"} }
                   : n \in 0..digits }

NoResync == [ interval |-> << >>, out |-> << >> ]

(***************************************************************************)
(* resourceVariablesMap, for one CR                                        *)
(***************************************************************************)
\* util.AuthenticationDetails{}
NoAuthDetails == [ AuthStrategy |-> "", IsMachineIdentityAuth |-> FALSE ]

\* what util.HandleAuthentication returns: the details of a strategy, or an
\* error
AuthResults ==
    { [ authDetails |-> [ AuthStrategy |-> "UNIVERSAL_MACHINE_IDENTITY",
                          IsMachineIdentityAuth |-> TRUE ], err |-> NoErr ],
      [ authDetails |-> [ AuthStrategy |-> "KUBERNETES_MACHINE_IDENTITY",
                          IsMachineIdentityAuth |-> TRUE ], err |-> NoErr ],
      [ authDetails |-> [ AuthStrategy |-> "SERVICE_TOKEN",
                          IsMachineIdentityAuth |-> FALSE ], err |-> NoErr ],
      [ authDetails |-> [ AuthStrategy |-> "SERVICE_ACCOUNT",
                          IsMachineIdentityAuth |-> FALSE ], err |-> NoErr ],
      [ authDetails |-> NoAuthDetails, err |-> <<"no", "authentication", "method", "provided">> ] }

\* no entry of resourceVariablesMap for the CR, nothing made for the CR
NoCR ==
    [ entry |-> << >>,          \* resourceVariablesMap[UID]: << >> or <<ResourceVariables>>
      cancelled |-> FALSE,      \* the CancelCtx of the entry was called
      stopped |-> FALSE,        \* the ctx the controller hands to its calls is done
      registries |-> << >>,     \* the context each registry made for the CR was given
      succeeded |-> 0,          \* authentications that succeeded since the entry was made
      did |-> [ authenticated |-> FALSE, err |-> NoErr, fetched |-> FALSE ],
                                \* the latest ReconcileInfisicalSecret
      forwarder |-> "none",     \* the goroutine of OpenInstantUpdatesStream: none, run, done
      closing |-> "none",       \* CloseInstantUpdatesStream: none, called, refused
      delivered |-> 0,          \* events the registry sent on the events channel
      eventCh |-> 0 ]           \* events the goroutine put on eventCh

\* getResourceVariables: the entry, made with a new context and a registry on
\* that context if there is none
getResourceVariables(cr) ==
    IF cr.entry = << >>
    THEN [cr EXCEPT !.entry = <<[ AuthDetails |-> NoAuthDetails,
                                  ServerSentEvents |-> Len(cr.registries) + 1 ]>>,
                    !.registries = Append(@, "cancelCtx"),
                    !.succeeded = 0]
    ELSE cr

\* the step without its `return 0, fmt.Errorf(...)`: it goes on to the fetch
\* after an authentication that failed
AuthenticatedGoesOn(cr, result) ==
    IF cr.entry[1].AuthDetails.AuthStrategy = ""
    THEN IF result.err # NoErr
         THEN [cr EXCEPT !.did = [ authenticated |-> TRUE, err |-> NoErr, fetched |-> TRUE ]]
         ELSE [cr EXCEPT !.entry = <<[ AuthDetails |-> result.authDetails,
                                       ServerSentEvents |-> Len(cr.registries) + 1 ]>>,
                         !.registries = Append(@, "ctx"),
                         !.succeeded = @ + 1,
                         !.did = [ authenticated |-> TRUE, err |-> NoErr, fetched |-> TRUE ]]
    ELSE [cr EXCEPT !.did = [ authenticated |-> FALSE, err |-> NoErr, fetched |-> TRUE ]]

\* ReconcileInfisicalSecret up to the fetch, on the entry of cr: it
\* authenticates if AuthStrategy is empty, returns on an error, and else
\* stores the details with a new registry on the context of the reconcile
Authenticated(cr, result) ==
    IF cr.entry[1].AuthDetails.AuthStrategy = ""
    THEN IF result.err # NoErr
         THEN [cr EXCEPT !.did = [ authenticated |-> TRUE,
                                   err |-> <<"unable", "to", "authenticate">> \o result.err,
                                   fetched |-> FALSE ]]
         ELSE [cr EXCEPT !.entry = <<[ AuthDetails |-> result.authDetails,
                                       ServerSentEvents |-> Len(cr.registries) + 1 ]>>,
                         !.registries = Append(@, "ctx"),
                         !.succeeded = @ + 1,
                         !.did = [ authenticated |-> TRUE, err |-> NoErr, fetched |-> TRUE ]]
    ELSE [cr EXCEPT !.did = [ authenticated |-> FALSE, err |-> NoErr, fetched |-> TRUE ]]

\* the context of the i-th registry made for the CR is done: a registry made
\* by NewConnectionRegistry(ctx) lives on ctx, and the context of a reconcile
\* is the controller's
RegistryDone(cr, i) ==
    \/ cr.registries[i] = "cancelCtx" /\ cr.cancelled
    \/ cr.registries[i] = "ctx" /\ cr.stopped

(***************************************************************************)
(* ConnectionMeta                                                          *)
(***************************************************************************)
\* meta := &ConnectionMeta{...}; meta.UpdateLastPing(); go r.processStream
NewMeta(params) ==
    [ params |-> params,
      cancelled |-> FALSE,      \* meta.cancel was called
      bodyCloses |-> 0,         \* calls of meta.body.Close
      age |-> 0,                \* health ticks since lastPingAt
      quiet |-> 0,              \* health ticks since the last ping was read
      reader |-> "scan",        \* processStream: scan, dispatch, done
      reported |-> NoErr ]      \* the error its reader passed to onError

\* connCtx is a child of r.ctx: done when cancelled itself or when r.ctx is
CtxDone(meta) == meta.cancelled \/ ctxDone

\* the body was closed: a pending or later read on it fails
BodyClosed(meta) == meta.bodyCloses > 0

\* a meta whose body is closed and whose reader has returned is gone once
\* r.conn does not point to it
Gone(meta) == BodyClosed(meta) /\ meta.reader = "done"

\* the meta leaves the slot: nothing reads its lastPingAt any more
Orphan(os, meta) == IF Gone(meta) THEN os ELSE Add(os, [meta EXCEPT !.age = 0, !.quiet = 0])

\* closeConnectionLocked on slot c: body.Close, Cancel, r.conn = nil
closeConnectionLocked(c, os) ==
    IF c # << >>
    THEN [ conn |-> << >>,
           orphans |-> Orphan(os, [c[1] EXCEPT !.bodyCloses = @ + 1, !.cancelled = TRUE]) ]
    ELSE [ conn |-> c, orphans |-> os ]

\* createConnectionLocked that formats the error without its cause (no %w)
createConnectionLockedNoCause(c, os, params, res) ==
    IF ctxDone
    THEN [ err |-> RegistryClosedErr, conn |-> c, orphans |-> os, opened |-> FALSE ]
    ELSE IF res # NoErr
    THEN [ err |-> <<"failed", "to", "establish", "SSE", "connection">>,
           conn |-> c, orphans |-> os, opened |-> TRUE ]
    ELSE [ err |-> NoErr, conn |-> <<NewMeta(params)>>,
           orphans |-> IF c # << >> THEN Orphan(os, c[1]) ELSE os,
           opened |-> TRUE ]

\* createConnectionLocked without its select on r.ctx.Done(): it opens on a
\* closed registry as on an open one
createConnectionLockedNoCheck(c, os, params, res) ==
    IF res # NoErr
    THEN [ err |-> <<"failed", "to", "establish", "SSE", "connection">> \o res,
           conn |-> c, orphans |-> os, opened |-> TRUE ]
    ELSE [ err |-> NoErr, conn |-> <<NewMeta(params)>>,
           orphans |-> IF c # << >> THEN Orphan(os, c[1]) ELSE os, opened |-> TRUE ]

\* createConnectionLocked with the slot c and the orphans os as they are when
\* it is entered; res is what requestFn returns if it is called.  r.conn =
\* meta leaves the meta that was in the slot as it is
createConnectionLocked(c, os, params, res) ==
    IF ctxDone
    THEN [ err |-> RegistryClosedErr, conn |-> c, orphans |-> os, opened |-> FALSE ]
    ELSE IF res # NoErr
    THEN [ err |-> <<"failed", "to", "establish", "SSE", "connection">> \o res,
           conn |-> c, orphans |-> os, opened |-> TRUE ]
    ELSE [ err |-> NoErr, conn |-> <<NewMeta(params)>>,
           orphans |-> IF c # << >> THEN Orphan(os, c[1]) ELSE os, opened |-> TRUE ]

\* the metas and loops of a state are within the bound
Fits(c, os, ls) == Len(c) + BagCardinality(os) + BagCardinality(ls) <= budget.objects

\* the health monitor between its RUnlock and its Lock: whether r.conn is
\* still the meta it read is r.conn == conn, which the slot's changes decide
Watch(changed) ==
    IF monitor.pc = "stale" /\ changed THEN [monitor EXCEPT !.same = FALSE] ELSE monitor

(***************************************************************************)
(* SubscribeWithParams: the whole call runs under r.mu                     *)
(***************************************************************************)
\* the connection in the slot has these params and its context is alive
SameAlive(params) == conn # << >> /\ Equals(conn[1].params, params) /\ ~CtxDone(conn[1])

\* SubscribeWithParams that opens before it closes: a failed open leaves the
\* previous connection in the slot
SubscribedKeepsOld(params, res) ==
    IF SameAlive(params)
    THEN [ err |-> NoErr, conn |-> conn, orphans |-> orphans, opened |-> FALSE ]
    ELSE LET made == createConnectionLocked(<< >>, orphans, params, res)
         IN IF made.err # NoErr
            THEN [made EXCEPT !.conn = conn]
            ELSE [made EXCEPT !.orphans = closeConnectionLocked(conn, orphans).orphans]

\* what SubscribeWithParams does to the slot and what it returns
Subscribed(params, res) ==
    IF SameAlive(params)
    THEN [ err |-> NoErr, conn |-> conn, orphans |-> orphans, opened |-> FALSE ]
    ELSE LET closed == closeConnectionLocked(conn, orphans)
         IN createConnectionLocked(closed.conn, closed.orphans, params, res)

\* SubscribeWithParams(params, fn) calls fn in this state
SubscribeOpens(params) == ~SameAlive(params) /\ ~ctxDone

SubscribeWithParams(params, fn, res) ==
    /\ LET made == Subscribed(params, res)
       IN /\ requestFn' = IF SameAlive(params) THEN requestFn ELSE fn
          /\ conn' = made.conn
          /\ orphans' = made.orphans
          /\ okFn' = IF made.err = NoErr THEN fn ELSE okFn
          /\ monitor' = Watch(~SameAlive(params) /\ conn # << >>)
          /\ Fits(made.conn, made.orphans, loops)
    /\ UNCHANGED <<ctxDone, loops, closer, budget, stream, kube, hashes, resync, crState, flow, config>>

\* GetParams
GetParams == IF conn = << >> THEN <<EmptyParams, FALSE>> ELSE <<conn[1].params, TRUE>>

\* IsConnected
IsConnected == conn # << >> /\ ~CtxDone(conn[1])

(***************************************************************************)
(* reconnectLoop                                                           *)
(***************************************************************************)
\* go r.reconnectLoop(params, requestFn)
NewLoop(params, fn) ==
    [ params |-> params,
      fn |-> fn,
      pc |-> "wait",                \* wait, attempt, onError, onReconnect
      attempt |-> 0,                \* the loop variable
      backoff |-> InitialBackoff,
      waits |-> << >>,              \* the waits that ran to their end, in seconds
      err |-> NoErr ]               \* the error passed to onError

\* case <-time.After(backoff)
LoopTimer(lp) ==
    /\ lp.pc = "wait"
    /\ ~ctxDone
    /\ loops' = Replace(loops, lp, [lp EXCEPT !.pc = "attempt",
                                              !.waits = Append(@, lp.backoff)])
    /\ UNCHANGED <<conn, orphans, ctxDone, requestFn, monitor, closer, okFn, budget, stream, kube, hashes, resync, crState, flow, config>>

\* case <-r.ctx.Done()
LoopCancelled(lp) ==
    /\ lp.pc = "wait"
    /\ ctxDone
    /\ loops' = Remove(loops, lp)
    /\ UNCHANGED <<conn, orphans, ctxDone, requestFn, monitor, closer, okFn, budget, stream, kube, hashes, resync, crState, flow, config>>

\* a loop without `if err == nil { return }`: it reports the nil error of an
\* attempt that succeeded and goes on
AfterAttemptGoesOn(lp, err) ==
    IF isPermanentError(err)
    THEN SetToBag({[lp EXCEPT !.pc = "onError",
                              !.err = <<"permanent", "error", "stopping", "reconnection">> \o err]})
    ELSE SetToBag({[lp EXCEPT !.pc = "onError",
                              !.err = <<"reconnect", "attempt", "failed">> \o err]})

\* what the loop does with the error of its attempt, after r.mu.Unlock():
\* it returns (no loop is left) or calls onError
AfterAttempt(lp, err) ==
    IF err = NoErr
    THEN EmptyBag
    ELSE IF isPermanentError(err)
    THEN SetToBag({[lp EXCEPT !.pc = "onError",
                              !.err = <<"permanent", "error", "stopping", "reconnection">> \o err]})
    ELSE SetToBag({[lp EXCEPT !.pc = "onError",
                              !.err = <<"reconnect", "attempt", "failed">> \o err]})

\* one attempt: r.mu.Lock(); createConnectionLocked; r.mu.Unlock()
LoopAttempt(lp, res) ==
    /\ lp.pc = "attempt"
    /\ LET made == createConnectionLocked(conn, orphans, lp.params, res)
       IN /\ conn' = made.conn
          /\ orphans' = made.orphans
          /\ loops' = Remove(loops, lp) (+) AfterAttempt(lp, made.err)
          /\ monitor' = Watch(made.err = NoErr)
          /\ Fits(conn', orphans', loops')
    /\ UNCHANGED <<ctxDone, requestFn, closer, okFn, budget, stream, kube, hashes, resync, crState, flow, config>>

\* the loop with `attempt <= MaxRetries` for its bound: one attempt too many
AfterOnErrorOneMore(lp) ==
    IF isPermanentError(lp.err)
    THEN EmptyBag
    ELSE LET next == [lp EXCEPT !.err = NoErr,
                                !.attempt = @ + 1,
                                !.backoff = Min(@ * BackoffFactor, MaxBackoff)]
         IN IF next.attempt <= MaxRetries
            THEN SetToBag({[next EXCEPT !.pc = "wait"]})
            ELSE SetToBag({[next EXCEPT !.pc = "onReconnect"]})

\* the loop after r.safeCallOnError returned
AfterOnError(lp) ==
    IF isPermanentError(lp.err)
    THEN EmptyBag
    ELSE LET next == [lp EXCEPT !.err = NoErr,
                                !.attempt = @ + 1,
                                !.backoff = Min(@ * BackoffFactor, MaxBackoff)]
         IN IF next.attempt < MaxRetries
            THEN SetToBag({[next EXCEPT !.pc = "wait"]})
            ELSE SetToBag({[next EXCEPT !.pc = "onReconnect"]})

\* r.safeCallOnError(...) returns
LoopOnError(lp) ==
    /\ lp.pc = "onError"
    /\ loops' = Remove(loops, lp) (+) AfterOnError(lp)
    /\ UNCHANGED <<conn, orphans, ctxDone, requestFn, monitor, closer, okFn, budget, stream, kube, hashes, resync, crState, flow, config>>

\* r.safeCallOnReconnect() returns, and the loop with it
LoopOnReconnect(lp) ==
    /\ lp.pc = "onReconnect"
    /\ loops' = Remove(loops, lp)
    /\ UNCHANGED <<conn, orphans, ctxDone, requestFn, monitor, closer, okFn, budget, stream, kube, hashes, resync, crState, flow, config>>

(***************************************************************************)
(* processStream.  A reader is that of the meta in the slot or that of an  *)
(* orphan.                                                                 *)
(***************************************************************************)
Readers ==
    {[slot |-> TRUE, meta |-> conn[i]] : i \in 1..Len(conn)}
      \cup {[slot |-> FALSE, meta |-> o] : o \in BagToSet(orphans)}

\* the reader's meta becomes meta
Put(rd, meta) ==
    IF rd.slot
    THEN conn' = <<meta>> /\ UNCHANGED orphans
    ELSE /\ orphans' = IF Gone(meta) THEN Remove(orphans, rd.meta)
                       ELSE Replace(orphans, rd.meta, meta)
         /\ UNCHANGED conn

\* scanner.Scan() returns the empty line that ends the event w; the reader
\* checks ctx, then takes a ping itself (meta.UpdateLastPing), hands an
\* event to onEvent, or goes on with the next line
ReaderRecv(rd, w) ==
    /\ rd.meta.reader = "scan"
    /\ ~BodyClosed(rd.meta)
    /\ IF CtxDone(rd.meta)
       THEN Put(rd, [rd.meta EXCEPT !.reader = "done"])
       ELSE LET heard == [rd.meta EXCEPT !.quiet = IF isPingEvent(Written(w)) THEN 0 ELSE @]
            IN IF Received(w) = "ping" THEN Put(rd, [heard EXCEPT !.age = 0])
               ELSE IF Received(w) = "event" THEN Put(rd, [heard EXCEPT !.reader = "dispatch"])
               ELSE Put(rd, heard)
    /\ UNCHANGED <<ctxDone, requestFn, monitor, loops, closer, okFn, budget, stream, kube, hashes, resync, crState, flow, config>>

\* r.safeCallOnEvent(currentEvent) returns
ReaderDispatch(rd) ==
    /\ rd.meta.reader = "dispatch"
    /\ Put(rd, [rd.meta EXCEPT !.reader = "scan"])
    /\ UNCHANGED <<ctxDone, requestFn, monitor, loops, closer, okFn, budget, stream, kube, hashes, resync, crState, flow, config>>

\* the read fails on a body the registry closed ("read on closed response
\* body", silent whether ctx is seen done or not), or the upstream ends the
\* stream cleanly (scanner.Err() is nil)
ReaderEnd(rd) ==
    /\ rd.meta.reader = "scan"
    /\ Put(rd, [rd.meta EXCEPT !.reader = "done"])
    /\ UNCHANGED <<ctxDone, requestFn, monitor, loops, closer, okFn, budget, stream, kube, hashes, resync, crState, flow, config>>

\* the test without its `case <-ctx.Done()`: only the message decides
SilentReadErrorByMessage(meta, err) ==
    \/ Contains(ToLower(err), <<"closed">>)
    \/ Contains(ToLower(err), <<"eof">>)

\* the error is one processStream returns on without a word
SilentReadError(meta, err) ==
    \/ CtxDone(meta)
    \/ Contains(ToLower(err), <<"closed">>)
    \/ Contains(ToLower(err), <<"eof">>)

\* triggerReconnect finds the registry open and a requestFn stored
Triggers == ~ctxDone /\ requestFn # 0

\* the params triggerReconnect hands to the loop
TriggerParams == IF conn # << >> THEN conn[1].params ELSE EmptyParams

\* the read fails with err on an open body: onError, then triggerReconnect
\* unless the error is permanent
ReaderError(rd, err) ==
    /\ rd.meta.reader = "scan"
    /\ ~BodyClosed(rd.meta)
    /\ IF SilentReadError(rd.meta, err)
       THEN /\ Put(rd, [rd.meta EXCEPT !.reader = "done"])
            /\ UNCHANGED loops
       ELSE /\ Put(rd, [rd.meta EXCEPT !.reader = "done", !.reported = err])
            /\ IF isPermanentError(err) \/ ~Triggers
               THEN UNCHANGED loops
               ELSE /\ loops' = Add(loops, NewLoop(TriggerParams, requestFn))
                    /\ Fits(conn', orphans', loops')
    /\ UNCHANGED <<ctxDone, requestFn, monitor, closer, okFn, budget, stream, kube, hashes, resync, crState, flow, config>>

(***************************************************************************)
(* monitorHealth                                                           *)
(***************************************************************************)
\* ticks after which the age no longer matters: the meta is stale for good
AgeCap == pingTimeout \div checkInterval + 1

\* time.Since(conn.LastPing()) > timeout, at a tick: age ticks since the ping
\* are more than (age - 1) * checkInterval and at most age * checkInterval
Stale(age) == (age - 1) * checkInterval >= pingTimeout

MonitorIdle == [ pc |-> "idle", same |-> FALSE, fn |-> 0 ]

\* 30 s pass and the ticker fires: checkConnectionHealth up to its RUnlock and
\* the staleness test
Tick ==
    /\ monitor.pc = "idle"
    /\ conn # << >>
    /\ LET age == Min(conn[1].age + 1, AgeCap)
       IN /\ conn' = <<[conn[1] EXCEPT !.age = age, !.quiet = Min(@ + 1, AgeCap)]>>
          /\ monitor' = IF ~ctxDone /\ Stale(age)
                        THEN [ pc |-> "stale", same |-> TRUE, fn |-> requestFn ]
                        ELSE monitor
    /\ UNCHANGED <<orphans, ctxDone, requestFn, loops, closer, okFn, budget, stream, kube, hashes, resync, crState, flow, config>>

\* checkConnectionHealth from r.mu.Lock() on
CheckStale ==
    /\ monitor.pc = "stale"
    /\ monitor' = MonitorIdle
    /\ IF monitor.same
       THEN LET closed == closeConnectionLocked(conn, orphans)
            IN /\ conn' = closed.conn
               /\ orphans' = closed.orphans
               /\ IF monitor.fn # 0
                  THEN /\ loops' = Add(loops, NewLoop(conn[1].params, monitor.fn))
                       /\ Fits(conn', orphans', loops')
                  ELSE UNCHANGED loops
       ELSE UNCHANGED <<conn, orphans, loops, hashes>>
    /\ UNCHANGED <<ctxDone, requestFn, closer, okFn, budget, stream, kube, hashes, resync, crState, flow, config>>

\* case <-r.ctx.Done() of monitorHealth
MonitorExit ==
    /\ monitor.pc = "idle"
    /\ ctxDone
    /\ monitor' = [monitor EXCEPT !.pc = "done"]
    /\ UNCHANGED <<conn, orphans, ctxDone, requestFn, loops, closer, okFn, budget, stream, kube, hashes, resync, crState, flow, config>>

(***************************************************************************)
(* Close                                                                   *)
(***************************************************************************)
\* the goroutines r.wg counts
RunningReaders == {rd \in Readers : rd.meta.reader # "done"}
MonitorRunning == monitor.pc # "done"
\* a reader blocked in scanner.Scan() on a body nobody closed: only the
\* upstream can make it move
Blocked(meta) == meta.reader = "scan" /\ ~BodyClosed(meta)

\* r.mu.Lock(); r.closeConnectionLocked(); r.mu.Unlock()
CloseConnection ==
    /\ closer.pc = "idle"
    /\ LET closed == closeConnectionLocked(conn, orphans)
       IN /\ conn' = closed.conn
          /\ orphans' = closed.orphans
    /\ monitor' = Watch(conn # << >>)
    /\ closer' = [closer EXCEPT !.pc = "cancel"]
    /\ UNCHANGED <<ctxDone, requestFn, loops, okFn, budget, stream, kube, hashes, resync, crState, flow, config>>

\* r.cancel()
CloseCancel ==
    /\ closer.pc = "cancel"
    /\ ctxDone' = TRUE
    /\ closer' = [closer EXCEPT !.pc = "wait"]
    /\ UNCHANGED <<conn, orphans, requestFn, monitor, loops, okFn, budget, stream, kube, hashes, resync, crState, flow, config>>

\* case <-done: r.wg.Wait() returned
CloseDone ==
    /\ closer.pc = "wait"
    /\ RunningReaders = {} /\ loops = EmptyBag /\ ~MonitorRunning
    /\ closer' = [ pc |-> "idle", returned |-> TRUE ]
    /\ UNCHANGED <<conn, orphans, ctxDone, requestFn, monitor, loops, okFn, budget, stream, kube, hashes, resync, crState, flow, config>>

\* case <-time.After(5 * time.Second): taken when the goroutines still running
\* are all blocked, since every other one ends as soon as it is scheduled
CloseTimeout ==
    /\ closer.pc = "wait"
    /\ RunningReaders # {}
    /\ loops = EmptyBag
    /\ ~MonitorRunning
    /\ \A rd \in RunningReaders : Blocked(rd.meta)
    /\ closer' = [ pc |-> "idle", returned |-> TRUE ]
    /\ UNCHANGED <<conn, orphans, ctxDone, requestFn, monitor, loops, okFn, budget, stream, kube, hashes, resync, crState, flow, config>>

(***************************************************************************)
(* The goroutines of a registry and r.mu                                   *)
(*                                                                         *)
(* Here a goroutine is where it is in its function and what it holds of    *)
(* r.mu; what the data decide (a line ends an event, an open succeeds, a   *)
(* connection is stale) is a choice.  One reader and one loop are followed. *)
(***************************************************************************)
Tasks == {"caller", "processStream", "reconnectLoop", "monitorHealth"}

\* a registry as NewConnectionRegistry leaves it.  pc: the statement the
\* goroutine is at; held: what its function holds of r.mu ("", "R", "W");
\* call: the method of the registry that the caller, or the callback the
\* goroutine is in, has called ("" none, "Lock" and "RLock" waiting for r.mu,
\* "W" and "R" holding it); attempt: the loop variable; recovered: the
\* latest callback of the goroutine panicked and the panic was recovered
NoFlow ==
    [t \in Tasks |->
        [ pc |-> IF t = "monitorHealth" THEN "ticker" ELSE IF t = "caller" THEN "run" ELSE "none",
          held |-> "", call |-> "", attempt |-> 0, recovered |-> FALSE ]]

\* r.mu.Lock() and r.mu.RLock() return at once
CanLock(f) == \A t \in Tasks : f[t].held = "" /\ f[t].call \notin {"W", "R"}
CanRLock(f) == \A t \in Tasks : f[t].held # "W" /\ f[t].call # "W"

\* the goroutine is inside onEvent, onError or onReconnect; after
\* onErrorPermanent the goroutine returns
InCallback(task) == task.pc \in {"onEvent", "onError", "onErrorPermanent", "onReconnect"}

\* where the goroutine t goes on once safeCallOnEvent, safeCallOnError or
\* safeCallOnReconnect has returned
Resume(t, task) ==
    CASE task.pc = "onEvent" -> [task EXCEPT !.pc = "Scan"]
      [] task.pc = "onError" /\ t = "processStream" -> [task EXCEPT !.pc = "triggerReconnect"]
      [] task.pc = "onError" /\ t = "reconnectLoop" ->
            [task EXCEPT !.pc = IF task.attempt + 1 < MaxRetries THEN "wait" ELSE "onReconnect",
                         !.attempt = @ + 1]
      [] OTHER -> [task EXCEPT !.pc = "none", !.attempt = 0]

\* safeCall without its deferred recover: a panic of the callback unwinds the
\* goroutine
safeCallNoRecover(t, task, panics) ==
    IF panics
    THEN [task EXCEPT !.pc = "none", !.attempt = 0, !.recovered = FALSE]
    ELSE [Resume(t, task) EXCEPT !.recovered = FALSE]

\* safeCallOnEvent, safeCallOnError, safeCallOnReconnect: the callback
\* returns or panics, and the deferred recover swallows the panic
safeCall(t, task, panics) == [Resume(t, task) EXCEPT !.recovered = panics]

\* the callback of goroutine t ends
Callback(t, panics) ==
    /\ InCallback(flow[t])
    /\ flow[t].call = ""
    /\ flow' = [flow EXCEPT ![t] = safeCall(t, flow[t], panics)]

\* the caller, or the callback the goroutine t is in, calls
\* SubscribeWithParams or Close (lock is "Lock") or Get, IsConnected or
\* GetParams (lock is "RLock")
Call(t, lock) ==
    /\ t = "caller" \/ InCallback(flow[t])
    /\ flow[t].call = ""
    /\ flow' = [flow EXCEPT ![t].call = lock]

\* r.mu.Lock() or r.mu.RLock() of that call returns
Locked(t) ==
    \/ /\ flow[t].call = "Lock" /\ CanLock(flow)
       /\ flow' = [flow EXCEPT ![t].call = "W"]
    \/ /\ flow[t].call = "RLock" /\ CanRLock(flow)
       /\ flow' = [flow EXCEPT ![t].call = "R"]

\* the call returns through its deferred unlock; a SubscribeWithParams that
\* opened has started processStream
Returned(t) ==
    \/ /\ flow[t].call = "R"
       /\ flow' = [flow EXCEPT ![t].call = ""]
    \/ /\ flow[t].call = "W"
       /\ \E starts \in BOOLEAN :
             flow' = [flow EXCEPT ![t].call = "",
                                  !.processStream.pc =
                                      IF starts /\ @ = "none" /\ t # "processStream" THEN "Scan" ELSE @]

\* processStream: scanner.Scan() returns a line that ends an event, or fails
\* with a transient or a permanent error, or the stream ends
processStream ==
    /\ flow.processStream.pc = "Scan"
    /\ \E next \in {"onEvent", "onError", "onErrorPermanent", "none"} :
          flow' = [flow EXCEPT !.processStream.pc = next]

\* triggerReconnect: RLock, read r.requestFn and r.conn, RUnlock, and go
\* r.reconnectLoop if requestFn is not nil
triggerReconnect ==
    \/ /\ flow.processStream.pc = "triggerReconnect" /\ CanRLock(flow)
       /\ flow' = [flow EXCEPT !.processStream.pc = "RLocked", !.processStream.held = "R"]
    \/ /\ flow.processStream.pc = "RLocked"
       /\ \E starts \in BOOLEAN :
             flow' = [flow EXCEPT !.processStream.pc = "none", !.processStream.held = "",
                                  !.reconnectLoop.pc = IF starts /\ @ = "none" THEN "wait" ELSE @]

\* a loop that calls safeCallOnError before r.mu.Unlock()
AttemptedLocked(task, result) ==
    CASE result = "ok" -> [task EXCEPT !.pc = "none", !.held = "", !.attempt = 0]
      [] result = "permanent" -> [task EXCEPT !.pc = "onErrorPermanent"]
      [] OTHER -> [task EXCEPT !.pc = "onError"]

\* the loop after r.mu.Unlock(): it returns, or calls safeCallOnError
Attempted(task, result) ==
    CASE result = "ok" -> [task EXCEPT !.pc = "none", !.held = "", !.attempt = 0]
      [] result = "permanent" -> [task EXCEPT !.pc = "onErrorPermanent", !.held = ""]
      [] OTHER -> [task EXCEPT !.pc = "onError", !.held = ""]

\* reconnectLoop up to its callbacks: the wait, r.mu.Lock(), and
\* createConnectionLocked with what the open returns
reconnectLoop ==
    \/ /\ flow.reconnectLoop.pc = "wait"
       /\ flow' = [flow EXCEPT !.reconnectLoop.pc = "Lock"]
    \/ /\ flow.reconnectLoop.pc = "Lock" /\ CanLock(flow)
       /\ flow' = [flow EXCEPT !.reconnectLoop.pc = "attempt", !.reconnectLoop.held = "W"]
    \/ /\ flow.reconnectLoop.pc = "attempt"
       /\ \E result \in {"ok", "transient", "permanent"} :
             flow' = [flow EXCEPT !.reconnectLoop = Attempted(@, result),
                                  !.processStream.pc =
                                      IF result = "ok" /\ @ = "none" THEN "Scan" ELSE @]

\* monitorHealth at a tick: checkConnectionHealth reads r.conn under RLock
\* and, for a stale connection, closes it under Lock and starts a loop
checkConnectionHealth ==
    \/ /\ flow.monitorHealth.pc = "ticker"
       /\ flow' = [flow EXCEPT !.monitorHealth.pc = "RLock"]
    \/ /\ flow.monitorHealth.pc = "RLock" /\ CanRLock(flow)
       /\ flow' = [flow EXCEPT !.monitorHealth.pc = "read", !.monitorHealth.held = "R"]
    \/ /\ flow.monitorHealth.pc = "read"
       /\ \E stale \in BOOLEAN :
             flow' = [flow EXCEPT !.monitorHealth.pc = IF stale THEN "Lock" ELSE "ticker",
                                  !.monitorHealth.held = ""]
    \/ /\ flow.monitorHealth.pc = "Lock" /\ CanLock(flow)
       /\ flow' = [flow EXCEPT !.monitorHealth.pc = "check", !.monitorHealth.held = "W"]
    \/ /\ flow.monitorHealth.pc = "check"
       /\ \E starts \in BOOLEAN :
             flow' = [flow EXCEPT !.monitorHealth.pc = "ticker", !.monitorHealth.held = "",
                                  !.reconnectLoop.pc = IF starts /\ @ = "none" THEN "wait" ELSE @]

(***************************************************************************)
(* The globals of package config                                           *)
(*                                                                         *)
(* A string is a sequence of tokens; "/" and "api" are tokens of their     *)
(* own.  The operator's config map names a host and no CA.                 *)
(***************************************************************************)
\* the CRs of the cluster: Spec.HostAPI and the certificate in the secret
\* that Spec.TLS.CaRef names (<< >> for no CaRef)
CustomResources ==
    [ a |-> [ HostAPI |-> <<"https://a">>, CaCertificate |-> <<"ca-a">> ],
      b |-> [ HostAPI |-> <<"https://b", "/">>, CaCertificate |-> <<"ca-b">> ],
      c |-> [ HostAPI |-> <<"https://c", "/", "api">>, CaCertificate |-> << >> ],
      d |-> [ HostAPI |-> << >>, CaCertificate |-> << >> ] ]

infisicalGlobalConfig == [ HostAPI |-> <<"https://global", "/", "api">>, TLS |-> << >> ]

\* config.API_HOST_URL and config.API_CA_CERTIFICATE as the package
\* initialises them; no CR is being reconciled, no stream is open, no request
\* has been made
NoConfig ==
    [ API_HOST_URL |-> <<"https://app.infisical.com", "/", "api">>,
      API_CA_CERTIFICATE |-> << >>,
      at |-> [cr \in DOMAIN CustomResources |-> "idle"],
      streams |-> {},
      request |-> << >> ]

AppendAPIEndpoint(address) ==
    IF Len(address) >= 2 /\ SubSeq(address, Len(address) - 1, Len(address)) = <<"/", "api">>
    THEN address
    ELSE IF address[Len(address)] = "/" THEN address \o <<"api">>
    ELSE address \o <<"/", "api">>

\* the value SetupAPIConfig gives config.API_HOST_URL for a CR
HostURL(cr) ==
    IF CustomResources[cr].HostAPI = << >> THEN infisicalGlobalConfig.HostAPI
    ELSE AppendAPIEndpoint(CustomResources[cr].HostAPI)

\* the first statement of a reconcile; the controller runs one reconcile at a
\* time
SetupAPIConfig(cr) ==
    /\ \A other \in DOMAIN CustomResources : config.at[other] = "idle"
    /\ config' = [config EXCEPT !.API_HOST_URL = HostURL(cr), !.at[cr] = "HandleCACertificate"]

\* found: the secret with the certificate can be read
HandleCACertificate(cr, found) ==
    /\ config.at[cr] = "HandleCACertificate"
    /\ config' =
          IF infisicalGlobalConfig.TLS = << >> /\ CustomResources[cr].CaCertificate # << >> /\ ~found
          THEN [config EXCEPT !.at[cr] = "idle"]
          ELSE [config EXCEPT !.API_CA_CERTIFICATE =
                                  IF infisicalGlobalConfig.TLS # << >>
                                  THEN infisicalGlobalConfig.TLS
                                  ELSE CustomResources[cr].CaCertificate,
                              !.at[cr] = "reconcile"]

\* the request of the closure that OpenInstantUpdatesStream subscribes with:
\* CreateRestyClient and CallSubscribeProjectEvents read the globals when the
\* closure is called
CallSubscribeProjectEvents(cr) ==
    [ cr |-> cr,
      url |-> config.API_HOST_URL \o <<"/", "v1", "/", "events", "/", "subscribe", "/", "project-events">>,
      RootCAs |-> config.API_CA_CERTIFICATE ]

\* the reconcile of a CR with instant updates opens the stream, or the
\* reconcile returns without opening one
Reconciling(cr, opens) ==
    /\ config.at[cr] = "reconcile"
    /\ config' = IF opens
                 THEN [config EXCEPT !.at[cr] = "idle", !.streams = @ \cup {cr},
                                     !.request = <<CallSubscribeProjectEvents(cr)>>]
                 ELSE [config EXCEPT !.at[cr] = "idle"]

\* an attempt of the reconnect loop of a CR's registry calls the closure
\* again, whatever the reconcile path is doing
Reconnect(cr) ==
    /\ cr \in config.streams
    /\ config' = [config EXCEPT !.request = <<CallSubscribeProjectEvents(cr)>>]


(***************************************************************************)
(* The registry with its callers and its upstream                          *)
(***************************************************************************)
\* NewConnectionRegistry
InitRegistry ==
    /\ conn = << >>
    /\ orphans = EmptyBag
    /\ ctxDone = FALSE
    /\ requestFn = 0
    /\ monitor = MonitorIdle
    /\ loops = EmptyBag
    /\ closer = [ pc |-> "idle", returned |-> FALSE ]
    /\ okFn = 0
    /\ stream = NoStream
    /\ kube = NoKube
    /\ hashes = NoHashes
    /\ resync = NoResync
    /\ flow = NoFlow
    /\ config = NoConfig
    /\ crState = NoCR

\* callers that subscribe with either params and always pass the same open
\* operation
Init ==
    /\ budget = [ objects |-> MaxObjects, params |-> ParamsSet, fns |-> {1},
                  events |-> {Keepalive, Update} ]
    /\ InitRegistry

\* callers that pass one of two open operations
InitFns ==
    /\ budget = [ objects |-> MaxObjects, params |-> ParamsSet, fns |-> {1, 2},
                  events |-> {Keepalive, Update} ]
    /\ InitRegistry

\* callers that subscribe with either params, and an upstream that sends no
\* ping
InitSwap ==
    /\ budget = [ objects |-> MaxObjects, params |-> ParamsSet, fns |-> {1},
                  events |-> {Update} ]
    /\ InitRegistry

\* callers that always subscribe with the same params and the same open
\* operation
InitSingle ==
    /\ budget = [ objects |-> MaxObjects, params |-> {Params("p1", "e1", "/a")}, fns |-> {1},
                  events |-> {Keepalive, Update} ]
    /\ InitRegistry

\* callers as in InitSingle, and an upstream that also sends the heartbeat
InitBeats ==
    /\ budget = [ objects |-> MaxObjects, params |-> {Params("p1", "e1", "/a")}, fns |-> {1},
                  events |-> {Keepalive, Heartbeat, Update} ]
    /\ InitRegistry

\* what the callers that subscribe, the upstream and the goroutines of the
\* registry do, a Close in progress included
Running ==
    \/ \E params \in budget.params, fn \in budget.fns :
          \E res \in IF SubscribeOpens(params) THEN OpenErrors ELSE {NoErr} :
              SubscribeWithParams(params, fn, res)
    \/ \E rd \in Readers :
          \/ \E w \in budget.events : ReaderRecv(rd, w)
          \/ ReaderDispatch(rd)
          \/ ReaderEnd(rd)
          \/ \E err \in ReadErrors : ReaderError(rd, err)
    \/ \E lp \in BagToSet(loops) :
          \/ LoopTimer(lp)
          \/ LoopCancelled(lp)
          \/ \E res \in OpenErrors : LoopAttempt(lp, res)
          \/ LoopOnError(lp)
          \/ LoopOnReconnect(lp)
    \/ Tick
    \/ CheckStale
    \/ MonitorExit
    \/ CloseCancel
    \/ CloseDone
    \/ CloseTimeout

Next == Running \/ CloseConnection

Spec == Init /\ [][Next]_vars

SpecFns == InitFns /\ [][Next]_vars

SpecSwap == InitSwap /\ [][Next]_vars

SpecSingle == InitSingle /\ [][Next]_vars

SpecBeats == InitBeats /\ [][Next]_vars

(***************************************************************************)
(* processStream on one body                                               *)
(***************************************************************************)
\* the bodies hold up to MaxEvents events
InitStream ==
    /\ budget = [ objects |-> MaxObjects, params |-> {}, fns |-> {}, events |-> WireEvents ]
    /\ conn = << >>
    /\ orphans = EmptyBag
    /\ ctxDone = FALSE
    /\ requestFn = 0
    /\ monitor = MonitorIdle
    /\ loops = EmptyBag
    /\ closer = [ pc |-> "idle", returned |-> FALSE ]
    /\ okFn = 0
    /\ \E n \in 0..MaxEvents : \E ws \in [1..n -> budget.events] : stream = NewStream(ws)
    /\ kube = NoKube
    /\ hashes = NoHashes
    /\ resync = NoResync
    /\ flow = NoFlow
    /\ config = NoConfig
    /\ crState = NoCR

\* scanner.Scan() returns the next line of the body
ScanNext ==
    /\ stream.lines # << >>
    /\ LET line == Head(stream.lines)
           turn == ScanLine(stream.scanner, line)
       IN stream' = [stream EXCEPT !.lines = Tail(@),
                                   !.scanner = turn.scanner,
                                   !.did = IF line = << >> THEN Append(@, turn.did) ELSE @]
    /\ UNCHANGED <<conn, orphans, ctxDone, requestFn, monitor, loops, closer, okFn, budget, kube, hashes, resync, crState, flow, config>>

SpecStream == InitStream /\ [][ScanNext]_vars

(***************************************************************************)
(* The reconciler with the CR's editor and the cluster's other users       *)
(***************************************************************************)
\* the registry is not part of a run of the reconciler
Unsubscribed ==
    /\ conn = << >>
    /\ orphans = EmptyBag
    /\ ctxDone = FALSE
    /\ requestFn = 0
    /\ monitor = MonitorIdle
    /\ loops = EmptyBag
    /\ closer = [ pc |-> "idle", returned |-> FALSE ]
    /\ okFn = 0
    /\ stream = NoStream

\* a CR that manages a secret and a config map; secrets exist beforehand
InitKube ==
    /\ budget = [ objects |-> MaxObjects, params |-> {}, fns |-> {}, events |-> {},
                  kinds |-> Kinds,
                  crLabels |-> {Labels({Team}, "a")},
                  crAnnotations |-> {EmptyMap},
                  outLabels |-> {Labels({Owner}, "ops")},
                  outAnnotations |-> {Annotations({Note}, "ops")},
                  fetches |-> {<<Variable("FOO", "1")>>, <<Variable("FOO", "3")>>},
                  failures |-> Failures ]
    /\ Unsubscribed
    /\ \E existing \in {<< >>, <<Foreign>>} : kube = [NoKube EXCEPT !.objs.Secret = existing]
    /\ hashes = NoHashes
    /\ resync = NoResync
    /\ flow = NoFlow
    /\ config = NoConfig
    /\ crState = NoCR

\* a CR that manages a secret, with labels and annotations that come and go
InitLabels ==
    /\ budget = [ objects |-> MaxObjects, params |-> {}, fns |-> {}, events |-> {},
                  kinds |-> {"Secret"},
                  crLabels |-> {Labels(keys, "a") : keys \in SUBSET {Team, Tier}},
                  crAnnotations |-> {Annotations(keys, "a") :
                                        keys \in SUBSET {Note, RestartedAt, MANAGED_LABELS_ANNOTATION}},
                  outLabels |-> {Labels({Owner}, "ops"), Labels({Team}, "ops")},
                  outAnnotations |-> {Annotations({Note}, "ops"), Annotations({RestartedAt}, "ops")},
                  fetches |-> {<<Variable("FOO", "1")>>},
                  failures |-> Failures ]
    /\ Unsubscribed
    /\ \E existing \in {<< >>, <<Foreign>>} : kube = [NoKube EXCEPT !.objs.Secret = existing]
    /\ hashes = NoHashes
    /\ resync = NoResync
    /\ flow = NoFlow
    /\ config = NoConfig
    /\ crState = NoCR

\* the CR's labels are edited
SetLabels(labels) ==
    /\ kube' = [kube EXCEPT !.cr.Labels = labels, !.did = NoKube.did]
    /\ UNCHANGED <<conn, orphans, ctxDone, requestFn, monitor, loops, closer, okFn, budget, stream, hashes, resync, crState, flow, config>>

\* the CR's annotations are edited
SetAnnotations(annotations) ==
    /\ kube' = [kube EXCEPT !.cr.Annotations = annotations, !.did = NoKube.did]
    /\ UNCHANGED <<conn, orphans, ctxDone, requestFn, monitor, loops, closer, okFn, budget, stream, hashes, resync, crState, flow, config>>

\* the CR's descriptor list of the kind is edited
SetRefs(kind, refs) ==
    /\ kube' = [kube EXCEPT !.refs[kind] = refs, !.did = NoKube.did]
    /\ UNCHANGED <<conn, orphans, ctxDone, requestFn, monitor, loops, closer, okFn, budget, stream, hashes, resync, crState, flow, config>>

\* somebody else sets labels on the object of the kind
Label(kind, labels) ==
    /\ kube.objs[kind] # << >>
    /\ kube' = [kube EXCEPT !.objs[kind][1].labels = Merge(@, labels), !.did = NoKube.did]
    /\ UNCHANGED <<conn, orphans, ctxDone, requestFn, monitor, loops, closer, okFn, budget, stream, hashes, resync, crState, flow, config>>

\* somebody else sets annotations, other than the markers, on the object
Annotate(kind, annotations) ==
    /\ kube.objs[kind] # << >>
    /\ kube' = [kube EXCEPT !.objs[kind][1].annotations = Merge(@, annotations),
                            !.did = NoKube.did]
    /\ UNCHANGED <<conn, orphans, ctxDone, requestFn, monitor, loops, closer, okFn, budget, stream, hashes, resync, crState, flow, config>>

\* the objects after the loops over the descriptors of ReconcileInfisicalSecret
WrittenObjects(secrets) ==
    [kind \in Kinds |-> Write(kube.cr, kube.refs[kind], kube.objs[kind], secrets, kind)]

\* the objects after the cleanup of ReconcileInfisicalSecret
Cleaned(secrets, failure) ==
    deleteUnreferencedOwnedResources(WrittenObjects(secrets), OwnerReferences(kube.refs.Secret),
                                     OwnerReferences(kube.refs.ConfigMap), failure)

\* ReconcileInfisicalSecret that returns nil: the fetch returns secrets, every
\* Get, Create and Update succeeds, and the cleanup meets the failure
ReconcileInfisicalSecret(secrets, failure) ==
    /\ kube' = [kube EXCEPT
                    !.objs = Cleaned(secrets, failure),
                    !.did = [kind \in Kinds |->
                                IF WrittenObjects(secrets)[kind] # << >>
                                      /\ Cleaned(secrets, failure)[kind] = << >>
                                THEN "deleted"
                                ELSE IF kube.refs[kind] = << >> THEN "none"
                                ELSE IF kube.objs[kind] = << >> THEN "created"
                                ELSE "updated"]]
    /\ UNCHANGED <<conn, orphans, ctxDone, requestFn, monitor, loops, closer, okFn, budget, stream, hashes, resync, crState, flow, config>>

NextKube ==
    \/ \E labels \in budget.crLabels : SetLabels(labels)
    \/ \E annotations \in budget.crAnnotations : SetAnnotations(annotations)
    \/ \E kind \in budget.kinds,
          refs \in {<< >>, <<[CreationPolicy |-> "Owner"]>>, <<[CreationPolicy |-> "Orphan"]>>} :
              SetRefs(kind, refs)
    \/ \E kind \in budget.kinds, labels \in budget.outLabels : Label(kind, labels)
    \/ \E kind \in budget.kinds, annotations \in budget.outAnnotations : Annotate(kind, annotations)
    \/ \E secrets \in budget.fetches, failure \in budget.failures :
          ReconcileInfisicalSecret(secrets, failure)

SpecKube == InitKube /\ [][NextKube]_vars

SpecLabels == InitLabels /\ [][NextKube]_vars

(***************************************************************************)
(* The reconciler with descriptors that carry templates                    *)
(***************************************************************************)
\* a CR whose descriptors have no template, one that renders, one that does
\* not compile, one that does not execute, or two of them
InitTemplates ==
    /\ budget = [ objects |-> MaxObjects, params |-> {}, fns |-> {}, events |-> {},
                  kinds |-> Kinds,
                  fetches |-> {<<Variable("FOO", "1")>>},
                  failures |-> {"none"},
                  refs |-> {[ CreationPolicy |-> policy, Template |-> template ] :
                               policy \in {"Owner", "Orphan"},
                               template \in
                                  {<< >>}
                                    \cup {<<[ IncludeAllSecrets |-> all, Data |-> data ]>> :
                                            all \in {FALSE},
                                            data \in
                                              { [k \in {<<"a">>} |-> <<"{{", "FOO", "Value", "}}">>],
                                                [k \in {<<"a">>} |-> <<"{{", "FOO", "Value">>],
                                                [k \in {<<"a">>} |-> <<"{{", "FOO", "Nope", "}}">>],
                                                [k \in {<<"a">>, <<"b">>} |->
                                                    IF k = <<"a">> THEN <<"v", "{{", "BAR", "Value", "}}">>
                                                    ELSE <<"{{", "FOO">>] }}} ]
    /\ Unsubscribed
    /\ kube = [ cr |-> NoKube.cr, refs |-> NoKube.refs, objs |-> NoKube.objs, did |-> NoKube.did,
                returned |-> [ err |-> NoErr, cleaned |-> FALSE ] ]
    /\ hashes = NoHashes
    /\ resync = NoResync
    /\ crState = NoCR
    /\ flow = NoFlow
    /\ config = NoConfig

\* ReconcileInfisicalSecret whose fetch returns secrets and whose Get, Create
\* and Update succeed
ReconcileTemplates(secrets, failure, orders) ==
    /\ LET done == Reconciled(kube, secrets, failure, orders)
       IN kube' = [kube EXCEPT
                       !.objs = done.objs,
                       !.returned = [ err |-> done.err, cleaned |-> done.cleaned ],
                       !.did = [kind \in Kinds |->
                                   IF done.objs[kind] = kube.objs[kind] THEN "none"
                                   ELSE IF done.objs[kind] = << >> THEN "deleted"
                                   ELSE IF kube.objs[kind] = << >> THEN "created"
                                   ELSE "updated"]]
    /\ UNCHANGED <<conn, orphans, ctxDone, requestFn, monitor, loops, closer, okFn, budget, stream,
                   hashes, resync, crState, flow, config>>

\* the orders the template keys of the CR's descriptors can be visited in
TemplateOrders ==
    {orders \in [Kinds -> UNION {Orders(keys) : keys \in SUBSET {<<"a">>, <<"b">>}}] :
        \A kind \in Kinds :
            orders[kind] \in Orders(IF kube.refs[kind] = << >> \/ kube.refs[kind][1].Template = << >>
                                    THEN {}
                                    ELSE DOMAIN kube.refs[kind][1].Template[1].Data)}

NextTemplates ==
    \/ \E kind \in budget.kinds, ref \in budget.refs : SetRefs(kind, <<ref>>)
    \/ \E kind \in budget.kinds : SetRefs(kind, << >>)
    \/ \E secrets \in budget.fetches, failure \in budget.failures, orders \in TemplateOrders :
          ReconcileTemplates(secrets, failure, orders)

SpecTemplates == InitTemplates /\ [][NextTemplates]_vars

(***************************************************************************)
(* The reconciles of several CRs and the globals                           *)
(***************************************************************************)
InitConfig ==
    /\ budget = [ objects |-> MaxObjects, params |-> {}, fns |-> {}, events |-> {},
                  resources |-> DOMAIN CustomResources ]
    /\ Unsubscribed
    /\ kube = NoKube
    /\ hashes = NoHashes
    /\ resync = NoResync
    /\ crState = NoCR
    /\ flow = NoFlow
    /\ config = NoConfig

\* the variables the reconciles' steps leave alone
OutsideConfig ==
    <<conn, orphans, ctxDone, requestFn, monitor, loops, closer, okFn, budget, stream,
      kube, hashes, resync, crState, flow>>

NextConfig ==
    \/ (\E cr \in budget.resources : SetupAPIConfig(cr)) /\ UNCHANGED OutsideConfig
    \/ (\E cr \in budget.resources, found \in BOOLEAN : HandleCACertificate(cr, found))
          /\ UNCHANGED OutsideConfig
    \/ (\E cr \in budget.resources, opens \in BOOLEAN : Reconciling(cr, opens))
          /\ UNCHANGED OutsideConfig
    \/ (\E cr \in budget.resources : Reconnect(cr)) /\ UNCHANGED OutsideConfig

SpecConfig == InitConfig /\ [][NextConfig]_vars

(***************************************************************************)
(* The etag of a fetch result                                              *)
(***************************************************************************)
\* two fetch results of up to MaxSecrets of the secrets the upstream holds
InitEtag ==
    /\ budget = [ objects |-> MaxObjects, params |-> {}, fns |-> {}, events |-> {} ]
    /\ Unsubscribed
    /\ kube = NoKube
    /\ resync = NoResync
    /\ flow = NoFlow
    /\ config = NoConfig
    /\ crState = NoCR
    /\ LET held == {Variable("FOO", "1"), Variable("BAR", "2"), Variable("FOO", "3")}
       IN \E n \in 0..MaxSecrets, m \in 0..MaxSecrets :
             \E a \in [1..n -> held], b \in [1..m -> held] : hashes = NewHashes(a, b)

\* a reconcile computes the etag of the i-th fetch result
Etag(i) ==
    /\ hashes.etag[i] = << >>
    /\ hashes' = [hashes EXCEPT !.etag[i] = newEtag(hashes.fetched[i])]
    /\ UNCHANGED <<conn, orphans, ctxDone, requestFn, monitor, loops, closer, okFn, budget, stream, kube, resync, crState, flow, config>>

NextEtag == \E i \in 1..2 : Etag(i)

SpecEtag == InitEtag /\ [][NextEtag]_vars

(***************************************************************************)
(* The resync interval of a CR                                             *)
(***************************************************************************)
InitResync ==
    /\ budget = [ objects |-> MaxObjects, params |-> {}, fns |-> {}, events |-> {} ]
    /\ Unsubscribed
    /\ kube = NoKube
    /\ hashes = NoHashes
    /\ \E interval \in Intervals(MaxDigits) : resync = [ interval |-> interval, out |-> << >> ]
    /\ flow = NoFlow
    /\ config = NoConfig
    /\ crState = NoCR

\* util.ConvertIntervalToDuration(infisicalSecret.Spec.ResyncInterval)
Convert ==
    /\ resync.out = << >>
    /\ resync' = [resync EXCEPT !.out = <<ConvertIntervalToDuration(resync.interval)>>]
    /\ UNCHANGED <<conn, orphans, ctxDone, requestFn, monitor, loops, closer, okFn, budget, stream,
                   kube, hashes, crState, flow, config>>

SpecResync == InitResync /\ [][Convert]_vars

(***************************************************************************)
(* A CR with its reconciles, its event stream and its deletion             *)
(***************************************************************************)
InitCR ==
    /\ budget = [ objects |-> MaxObjects, params |-> {}, fns |-> {}, events |-> {} ]
    /\ Unsubscribed
    /\ kube = NoKube
    /\ hashes = NoHashes
    /\ resync = NoResync
    /\ flow = NoFlow
    /\ config = NoConfig
    /\ crState = NoCR

\* ReconcileInfisicalSecret, with what HandleAuthentication returns if called
Reconcile(result) ==
    /\ ~crState.cancelled /\ ~crState.stopped
    /\ crState' = Authenticated(getResourceVariables(crState), result)
    /\ UNCHANGED <<conn, orphans, ctxDone, requestFn, monitor, loops, closer, okFn, budget, stream,
                   kube, hashes, resync, flow, config>>

\* OpenInstantUpdatesStream whose Subscribe succeeds: the goroutine that
\* forwards starts
OpenInstantUpdatesStream ==
    /\ crState.entry # << >>
    /\ crState.entry[1].AuthDetails.IsMachineIdentityAuth
    /\ crState.forwarder = "none"
    /\ ~crState.stopped
    /\ crState' = [crState EXCEPT !.forwarder = "run"]
    /\ UNCHANGED <<conn, orphans, ctxDone, requestFn, monitor, loops, closer, okFn, budget, stream,
                   kube, hashes, resync, flow, config>>

\* the registry sends an event that is no ping: `case ev := <-events` puts a
\* generic event for the CR on eventCh, if the goroutine is there to receive
OnEvent ==
    /\ crState.forwarder # "none"
    /\ ~RegistryDone(crState, crState.entry[1].ServerSentEvents)
    /\ crState.delivered < MaxEvents
    /\ crState' = [crState EXCEPT !.delivered = @ + 1,
                                  !.eventCh = IF crState.forwarder = "run" THEN @ + 1 ELSE @]
    /\ UNCHANGED <<conn, orphans, ctxDone, requestFn, monitor, loops, closer, okFn, budget, stream,
                   kube, hashes, resync, flow, config>>

\* the registry reports an error: `case err := <-errors` logs it and leaves
\* the loop
OnError ==
    /\ crState.forwarder = "run"
    /\ ~RegistryDone(crState, crState.entry[1].ServerSentEvents)
    /\ crState' = [crState EXCEPT !.forwarder = "done"]
    /\ UNCHANGED <<conn, orphans, ctxDone, requestFn, monitor, loops, closer, okFn, budget, stream,
                   kube, hashes, resync, flow, config>>

\* the controller calls the CancelCtx of the entry: the CR is deleted
CancelCtx ==
    /\ crState.entry # << >>
    /\ ~crState.cancelled
    /\ crState' = [crState EXCEPT !.cancelled = TRUE]
    /\ UNCHANGED <<conn, orphans, ctxDone, requestFn, monitor, loops, closer, okFn, budget, stream,
                   kube, hashes, resync, flow, config>>

\* the controller stops: `case <-ctx.Done()` ends the goroutine that forwards
Stop ==
    /\ ~crState.stopped
    /\ crState' = [crState EXCEPT !.stopped = TRUE,
                                  !.forwarder = IF @ = "run" THEN "done" ELSE @]
    /\ UNCHANGED <<conn, orphans, ctxDone, requestFn, monitor, loops, closer, okFn, budget, stream,
                   kube, hashes, resync, flow, config>>

NextCR ==
    \/ \E result \in AuthResults : Reconcile(result)
    \/ OpenInstantUpdatesStream
    \/ OnEvent
    \/ OnError
    \/ CancelCtx
    \/ Stop

SpecCR == InitCR /\ [][NextCR]_vars

(***************************************************************************)
(* The registry of a machine-identity CR, closed when the CR is deleted    *)
(***************************************************************************)
\* the CR is authenticated; its callers subscribe as in InitSingle, with room
\* for one more connection or loop
InitCRStream ==
    /\ budget = [ objects |-> MaxObjects + 1, params |-> {Params("p1", "e1", "/a")}, fns |-> {1},
                  events |-> {Keepalive, Update} ]
    /\ Unsubscribed
    /\ kube = NoKube
    /\ hashes = NoHashes
    /\ resync = NoResync
    /\ flow = NoFlow
    /\ config = NoConfig
    /\ \E result \in AuthResults :
          /\ result.authDetails.AuthStrategy = "UNIVERSAL_MACHINE_IDENTITY"
          /\ crState = Authenticated(getResourceVariables(NoCR), result)

\* CloseInstantUpdatesStream up to the r.mu.Unlock() of Close, if it calls
\* Close: it does when conn.Get() finds a connection in the slot
CloseInstantUpdatesStream ==
    /\ closer.pc = "idle"
    /\ crState.closing = "none"
    /\ LET variables == getResourceVariables(crState)
       IN IF ~variables.entry[1].AuthDetails.IsMachineIdentityAuth
          THEN /\ crState' = [variables EXCEPT !.closing = "refused"]
               /\ UNCHANGED <<conn, orphans, monitor, closer>>
          ELSE /\ crState' = [variables EXCEPT !.closing = "called"]
               /\ IF conn # << >>
                  THEN LET closed == closeConnectionLocked(conn, orphans)
                       IN /\ conn' = closed.conn
                          /\ orphans' = closed.orphans
                          /\ monitor' = Watch(TRUE)
                          /\ closer' = [closer EXCEPT !.pc = "cancel"]
                  ELSE UNCHANGED <<conn, orphans, monitor, closer>>
    /\ UNCHANGED <<ctxDone, requestFn, loops, okFn, budget, stream, kube, hashes, resync, flow, config>>

NextCRStream == Running \/ CloseInstantUpdatesStream

SpecCRStream == InitCRStream /\ [][NextCRStream]_vars

(***************************************************************************)
(* A registry whose callbacks call the registry and may panic              *)
(***************************************************************************)
InitFlow ==
    /\ budget = [ objects |-> MaxObjects, params |-> {}, fns |-> {}, events |-> {} ]
    /\ Unsubscribed
    /\ kube = NoKube
    /\ hashes = NoHashes
    /\ resync = NoResync
    /\ crState = NoCR
    /\ flow = NoFlow
    /\ config = NoConfig

\* the variables the goroutines' steps leave alone
OutsideFlow ==
    <<conn, orphans, ctxDone, requestFn, monitor, loops, closer, okFn, budget, stream,
      kube, hashes, resync, crState, config>>

NextFlow ==
    \/ (\E t \in Tasks, lock \in {"Lock", "RLock"} : Call(t, lock)) /\ UNCHANGED OutsideFlow
    \/ (\E t \in Tasks : Locked(t)) /\ UNCHANGED OutsideFlow
    \/ (\E t \in Tasks : Returned(t)) /\ UNCHANGED OutsideFlow
    \/ (\E t \in Tasks, panics \in BOOLEAN : Callback(t, panics)) /\ UNCHANGED OutsideFlow
    \/ processStream /\ UNCHANGED OutsideFlow
    \/ triggerReconnect /\ UNCHANGED OutsideFlow
    \/ reconnectLoop /\ UNCHANGED OutsideFlow
    \/ checkConnectionHealth /\ UNCHANGED OutsideFlow

SpecFlow == InitFlow /\ [][NextFlow]_vars

(***************************************************************************)
(* What the operator is said to guarantee                                  *)
(***************************************************************************)
\* how many records of the bag b are in the set S
RECURSIVE Count(_, _)
Count(b, S) ==
    IF S = {} THEN 0
    ELSE LET x == CHOOSE y \in S : TRUE IN b[x] + Count(b, S \ {x})

\* a meta is live from its creation until its body is closed and its reader
\* has returned
Live(meta) == ~(BodyClosed(meta) /\ meta.reader = "done")

LiveMetas ==
    Len(SelectSeq(conn, Live)) + Count(orphans, {o \in BagToSet(orphans) : Live(o)})

\* the processStream goroutines that have not returned
ReadersRunning ==
    Len(SelectSeq(conn, LAMBDA meta : meta.reader # "done"))
      + Count(orphans, {o \in BagToSet(orphans) : o.reader # "done"})

\* the goroutines of the registry that have not returned
TasksRunning == ReadersRunning + BagCardinality(loops) + (IF MonitorRunning THEN 1 ELSE 0)

\* C1: in every reachable state at most one ConnectionMeta is live, a meta
\* being live from its creation until its body is closed and its reader has
\* returned
C1_AtMostOneLiveMeta == LiveMetas <= 1

\* C2: a SubscribeWithParams whose params differ from those of the connection
\* in the slot and that opens the new connection leaves at most one reader
\* running (the old reader has returned before the new one starts), and
\* GetParams then returns the new params
C2_SwapLeavesOneReader ==
    [][\A params \in budget.params, fn \in budget.fns, res \in OpenErrors :
          ( /\ conn # << >>
            /\ ~Equals(conn[1].params, params)
            /\ Subscribed(params, res).err = NoErr
            /\ SubscribeWithParams(params, fn, res) )
          => (ReadersRunning' <= 1 /\ GetParams' = <<params, TRUE>>)]_vars

\* C3: once a call of Close has returned, no goroutine of the registry
\* (reader, health monitor, reconnect loop) is running, then or later
C3_NothingRunsAfterClose == closer.returned => TasksRunning = 0

\* C4: at most one reconnect loop is running at any time
C4_AtMostOneReconnectLoop == BagCardinality(loops) <= 1

\* the waits of a loop all of whose attempts fail, in seconds
FiveWaits == <<1, 2, 4, 8, 16>>

\* C5: a reconnect loop whose attempts all fail with a transient error while
\* the registry is open makes 5 attempts and no sixth, the attempts preceded
\* by waits of 1, 2, 4, 8 and 16 s (the backoff doubles after each failure
\* and is capped at 30 s), and calls onReconnect after the fifth failure only
C5_FiveAttemptsThenOnReconnect ==
    \A lp \in BagToSet(loops) :
        /\ lp.pc = "wait" =>
              /\ lp.attempt < 5
              /\ lp.waits = SubSeq(FiveWaits, 1, lp.attempt)
              /\ lp.backoff = FiveWaits[lp.attempt + 1]
        /\ lp.pc \in {"attempt", "onError"} =>
              /\ lp.attempt < 5
              /\ lp.waits = SubSeq(FiveWaits, 1, lp.attempt + 1)
              /\ lp.backoff = FiveWaits[lp.attempt + 1]
        /\ lp.pc = "onReconnect" =>
              lp.attempt = 5 /\ lp.waits = FiveWaits /\ lp.backoff = 30

\* a loop has failed five times and is calling onReconnect
C5_Exhausted == \E lp \in BagToSet(loops) : lp.pc = "onReconnect" /\ Len(lp.waits) = 5

\* the connection in the slot is one whose reader reported a permanent error
Poisoned == conn # << >> /\ isPermanentError(conn[1].reported)

\* C6: once the reader of a connection has reported a permanent error, no
\* task of the registry starts a reconnect loop for that connection, the
\* health monitor included
C6_NoReconnectAfterPermanent ==
    [][(Poisoned /\ CheckStale) => BagCardinality(loops') <= BagCardinality(loops)]_vars

\* what the upstream answers when the plan has no event stream
PlanResponse == UnsuccessfulResponse(PlanMessage)

\* the calls of onError in progress whose error carries the plan message
PlanCalls ==
    Count(loops, {lp \in BagToSet(loops) : lp.pc = "onError" /\ Contains(lp.err, PlanMessage)})

\* C7 as claimed: an open that fails with 'not available on your current
\* plan' makes the registry call onError once with an error carrying that
\* message and spawns no reconnect loop, whether SubscribeWithParams or a
\* reconnect attempt issued the open
C7_PlanErrorCallsOnError ==
    [][ /\ \A params \in budget.params, fn \in budget.fns :
              (SubscribeOpens(params) /\ SubscribeWithParams(params, fn, PlanResponse))
              => (PlanCalls' = PlanCalls + 1 /\ BagCardinality(loops') = BagCardinality(loops))
        /\ \A lp \in BagToSet(loops) :
              (~ctxDone /\ LoopAttempt(lp, PlanResponse))
              => (PlanCalls' = PlanCalls + 1 /\ BagCardinality(loops') = BagCardinality(loops))
      ]_vars

\* C7 as the code has it: a reconnect attempt whose open fails with that
\* message calls onError once with an error carrying it and the loop ends
\* when the call returns; SubscribeWithParams returns an error carrying the
\* message to its caller and calls no onError; neither spawns a reconnect loop
C7_PlanErrorReportedOnce ==
    /\ \A params \in budget.params, fn \in budget.fns :
          SubscribeOpens(params) =>
              /\ Contains(Subscribed(params, PlanResponse).err, PlanMessage)
              /\ ~ENABLED ( /\ SubscribeWithParams(params, fn, PlanResponse)
                            /\ ~(PlanCalls' = PlanCalls /\ loops' = loops /\ conn' = << >>) )
    /\ \A lp \in BagToSet(loops) :
          ~ctxDone =>
              ~ENABLED ( /\ LoopAttempt(lp, PlanResponse)
                         /\ ~( /\ PlanCalls' = PlanCalls + 1
                               /\ BagCardinality(loops') = BagCardinality(loops)
                               /\ conn' = conn ) )
    /\ \A lp \in BagToSet(loops) :
          (lp.pc = "onError" /\ Contains(lp.err, PlanMessage)) =>
              ~ENABLED (LoopOnError(lp) /\ loops' # Remove(loops, lp))

\* a reconnect attempt failed with the plan message and its loop is calling
\* onError
C7_PlanReported == PlanCalls = 1

\* C8: when the connection in the slot has the same ProjectID, EnvSlug and
\* SecretsPath as the params of the call and its context is not done,
\* SubscribeWithParams returns nil without calling open, without closing or
\* replacing the connection and without starting a reader
C8_SameParamsNoOp ==
    \A params \in ParamsSet, res \in OpenErrors :
        ( /\ conn # << >>
          /\ conn[1].params.ProjectID = params.ProjectID
          /\ conn[1].params.EnvSlug = params.EnvSlug
          /\ conn[1].params.SecretsPath = params.SecretsPath
          /\ ~CtxDone(conn[1]) )
        => Subscribed(params, res) =
              [ err |-> NoErr, conn |-> conn, orphans |-> orphans, opened |-> FALSE ]

\* a connection that has been read from for a while is in the slot, alive
C8_AliveConnection ==
    conn # << >> /\ ~CtxDone(conn[1]) /\ conn[1].age > 0 /\ conn[1].params \in ParamsSet

\* C9: once a SubscribeWithParams has returned nil, every later reconnect
\* attempt calls the open operation passed to the most recent such call
C9_ReconnectUsesLatestOpen ==
    [][\A lp \in BagToSet(loops), res \in OpenErrors :
          (okFn # 0 /\ ~ctxDone /\ LoopAttempt(lp, res)) => lp.fn = okFn]_vars

\* C10: a second or later call of Close finds the registry as the first left
\* it, the slot empty and the context cancelled, and changes nothing: no body
\* is closed again
C10_CloseIdempotent ==
    [][(closer.returned /\ CloseConnection)
          => (ctxDone /\ conn = << >> /\ conn' = conn /\ orphans' = orphans)]_vars


\* C11: with time counted in health checks, the monitor judges the
\* connection in the slot stale, closes it and starts a reconnect loop at
\* exactly those checks at which the registry is open and no ping has been
\* read from the connection for more than pingTimeout
C11_StaleIffNoPingForTimeout ==
    [][Tick => ((monitor'.pc = "stale") <=> (~ctxDone /\ Stale(conn'[1].quiet)))]_vars

\* C12: every event the reader of the connection in the slot receives, ping
\* or not, refreshes the connection's lastPingAt
C12_EveryEventRefreshesLastPing ==
    [][\A w \in budget.events :
          (conn # << >> /\ ~CtxDone(conn[1])
              /\ ReaderRecv([slot |-> TRUE, meta |-> conn[1]], w)) => conn'[1].age = 0]_vars


\* the events passed to onEvent so far, in order
RECURSIVE Delivered(_)
Delivered(did) ==
    IF did = << >> THEN << >>
    ELSE (IF Head(did) # << >> /\ ~Head(did)[1].ping THEN <<Head(did)[1].event>> ELSE << >>)
            \o Delivered(Tail(did))

\* the written events that are no pings, in order
RECURSIVE Expected(_)
Expected(ws) ==
    IF ws = << >> THEN << >>
    ELSE (IF isPingEvent(Written(Head(ws))) THEN << >> ELSE <<Written(Head(ws))>>)
            \o Expected(Tail(ws))

\* C13: the reader takes an event as a ping (refreshes lastPingAt, no
\* onEvent) exactly if its name is "ping", or its name is empty and its
\* trimmed data is "1"; every other event that is not empty goes to onEvent
C13_PingIffNamedPingOrDataOne ==
    \A k \in 1..Len(stream.did) :
        LET w == Written(stream.sent[k])
            did == stream.did[k]
        IN /\ (did # << >> /\ did[1].ping) <=> isPingEvent(w)
           /\ (w # EmptyEvent /\ ~isPingEvent(w)) => (did # << >> /\ ~did[1].ping)

\* C14: once the body is read to its end, the events passed to onEvent are
\* the written events with the pings removed: same order, same name, id
\* and data
C14_DeliveredIsWrittenWithoutPings ==
    stream.lines = << >> => Delivered(stream.did) = Expected(stream.sent)


\* the object of the kind was written by the reconcile that just returned
JustWritten(kind) == kube.did[kind] \in {"created", "updated"} /\ kube.objs[kind] # << >>

\* the reconciler is about to write the object of the kind
ToWrite(kind) == kind \in budget.kinds /\ kube.refs[kind] # << >>

\* C15: after every write (create or update) of a managed object for the CR
\* labels Lc, the managed-labels annotation parses to exactly the keys of
\* Lc, and every label that was on the object before the write, is not in
\* Lc and was not in the previous managed-labels still has its value
C15_MarkerIsCrKeysAndOthersKept ==
    /\ \A kind \in Kinds :
          JustWritten(kind) =>
              parseManagedKeys(Lookup(kube.objs[kind][1].annotations, MANAGED_LABELS_ANNOTATION))
                  = DOMAIN kube.cr.Labels
    /\ \A kind \in Kinds, secrets \in budget.fetches :
          ToWrite(kind) =>
              LET before == IF kube.objs[kind] = << >> THEN EmptyMap ELSE kube.objs[kind][1].labels
                  managed == IF kube.objs[kind] = << >> THEN {}
                             ELSE parseManagedKeys(Lookup(kube.objs[kind][1].annotations,
                                                          MANAGED_LABELS_ANNOTATION))
                  after == WrittenObjects(secrets)[kind][1]
              IN /\ parseManagedKeys(Lookup(after.annotations, MANAGED_LABELS_ANNOTATION))
                        = DOMAIN kube.cr.Labels
                 /\ \A k \in DOMAIN before \ (DOMAIN kube.cr.Labels \cup managed) :
                        k \in DOMAIN after.labels /\ after.labels[k] = before[k]

\* an update has just written a secret that keeps a label of somebody else
\* next to the two labels of the CR
C15_UpdatedWithForeignLabel ==
    /\ kube.did.Secret = "updated"
    /\ kube.objs.Secret # << >>
    /\ DOMAIN kube.cr.Labels = {Team, Tier}
    /\ Owner \in DOMAIN kube.objs.Secret[1].labels
    /\ kube.objs.Secret[1].labels[Owner] = "ops"

\* the reconciler is about to update an object it wrote before
SecondReconcile(kind) == ToWrite(kind) /\ kube.objs[kind] # << >> /\ kube.objs[kind][1].seen # << >>

\* a key nobody but the CR sets: not in the CR at the earlier reconcile nor now
OutOfBand(kind, field, cr) ==
    DOMAIN kube.objs[kind][1][field] \ (kube.objs[kind][1].seen[1][field] \cup DOMAIN cr \cup Markers)

\* C16 as stated: across two successive reconciles of the same object, a
\* label or annotation key that was in the CR at the first and is absent
\* from the CR at the second is absent from the object after the second; a
\* key added out-of-band, never in the CR, is still there with its value
C16_RemovedKeysLeaveObject ==
    \A kind \in Kinds, secrets \in budget.fetches :
        SecondReconcile(kind) =>
            LET before == kube.objs[kind][1]
                after == WrittenObjects(secrets)[kind][1]
            IN /\ \A k \in before.seen[1].labels \ DOMAIN kube.cr.Labels :
                      k \notin DOMAIN after.labels
               /\ \A k \in before.seen[1].annotations \ DOMAIN kube.cr.Annotations :
                      k \notin DOMAIN after.annotations
               /\ \A k \in OutOfBand(kind, "labels", kube.cr.Labels) :
                      k \in DOMAIN after.labels /\ after.labels[k] = before.labels[k]
               /\ \A k \in OutOfBand(kind, "annotations", kube.cr.Annotations) :
                      k \in DOMAIN after.annotations /\ after.annotations[k] = before.annotations[k]

\* C16 amended: the same, where the annotation keys that leave the object
\* are those without a system prefix that are none of the three markers
C16_RemovedManagedKeysLeaveObject ==
    \A kind \in Kinds, secrets \in budget.fetches :
        SecondReconcile(kind) =>
            LET before == kube.objs[kind][1]
                after == WrittenObjects(secrets)[kind][1]
            IN /\ \A k \in before.seen[1].labels \ DOMAIN kube.cr.Labels :
                      k \notin DOMAIN after.labels
               /\ \A k \in before.seen[1].annotations \ DOMAIN kube.cr.Annotations :
                      (~isSystem(k) /\ k \notin Markers) => k \notin DOMAIN after.annotations
               /\ \A k \in OutOfBand(kind, "labels", kube.cr.Labels) :
                      k \in DOMAIN after.labels /\ after.labels[k] = before.labels[k]
               /\ \A k \in OutOfBand(kind, "annotations", kube.cr.Annotations) :
                      k \in DOMAIN after.annotations /\ after.annotations[k] = before.annotations[k]

\* a reconcile wrote the secret when the CR had the label team and the
\* annotation note; the CR has dropped both, somebody else has set the label
\* owner, and the next reconcile is about to update the secret
C16_DroppedAndForeignBeforeSecond ==
    /\ SecondReconcile("Secret")
    /\ kube.objs.Secret[1].seen[1].labels = {Team}
    /\ Note \in kube.objs.Secret[1].seen[1].annotations
    /\ kube.cr.Labels = EmptyMap
    /\ kube.cr.Annotations = EmptyMap
    /\ {Team, Owner} \subseteq DOMAIN kube.objs.Secret[1].labels
    /\ Note \in DOMAIN kube.objs.Secret[1].annotations

\* C17: after every write (create or update) of a managed secret or config
\* map its annotations hold the three markers, and secret-version is the
\* etag of that reconcile
C17_ThreeMarkersAfterWrite ==
    \A kind \in Kinds, secrets \in budget.fetches :
        ToWrite(kind) =>
            LET after == WrittenObjects(secrets)[kind][1]
            IN /\ Markers \subseteq DOMAIN after.annotations
               /\ Lookup(after.annotations, SECRET_VERSION_ANNOTATION) = newEtag(secrets)

\* C18: after every write (create or update) of a managed secret or config
\* map, the object carries the controller owner reference to the CR exactly
\* if the descriptor's creationPolicy is Owner
C18_OwnerIffPolicyOwner ==
    \A kind \in Kinds, secrets \in budget.fetches :
        ToWrite(kind) =>
            (WrittenObjects(secrets)[kind][1].owner <=> kube.refs[kind][1].CreationPolicy = "Owner")

\* the CR has no descriptor of the kind and the cluster holds the object a
\* descriptor with the policy Owner owned
Unreferenced(kind) ==
    /\ kind \in budget.kinds
    /\ kube.refs[kind] = << >>
    /\ kube.objs[kind] # << >>
    /\ isOwnedByInfisicalSecret(kube.objs[kind][1])

\* C19 as stated: after a descriptor with the policy Owner was removed, the
\* next reconcile that returns nil deletes the object it owned, unless the
\* Delete fails
C19_NextReconcileDeletes ==
    \A kind \in Kinds, secrets \in budget.fetches, failure \in budget.failures :
        (Unreferenced(kind) /\ failure # "delete") => Cleaned(secrets, failure)[kind] = << >>

\* the cleanup lists the objects of the kind
Listed(kind, failure) ==
    failure # "listSecrets" /\ (kind = "ConfigMap" => failure # "listConfigMaps")

\* C19 amended: the next reconcile that returns nil and whose cleanup lists
\* the objects of the kind deletes the object, unless the Delete fails
C19_NextListingReconcileDeletes ==
    \A kind \in Kinds, secrets \in budget.fetches, failure \in budget.failures :
        (Unreferenced(kind) /\ failure # "delete" /\ Listed(kind, failure))
            => Cleaned(secrets, failure)[kind] = << >>

\* the reconcile that just returned deleted the config map whose descriptor
\* was removed
C19_ConfigMapCollected ==
    /\ kube.did.ConfigMap = "deleted"
    /\ kube.refs.ConfigMap = << >>
    /\ kube.objs.ConfigMap = << >>


\* the {key, value} pairs of a fetch result, as a multiset
RECURSIVE Pairs(_)
Pairs(secrets) ==
    IF secrets = << >> THEN EmptyBag
    ELSE Add(Pairs(Tail(secrets)), [ Key |-> Head(secrets).Key, Value |-> Head(secrets).Value ])

\* C20: the etag depends only on the multiset of {key, value} pairs: two
\* fetch results that hold the same pairs, in any order, have the same etag
C20_SamePairsSameEtag ==
    (/\ hashes.etag[1] # << >>
     /\ hashes.etag[2] # << >>
     /\ Pairs(hashes.fetched[1]) = Pairs(hashes.fetched[2]))
        => hashes.etag[1] = hashes.etag[2]

\* C21: cancelling the cancelRoot of a CR cancels the context of every
\* ConnectionRegistry made for that CR, so that no reader, health monitor or
\* reconnect loop started for the CR outlives the cancellation
C21_CancelRootCancelsRegistries ==
    crState.cancelled => \A i \in 1..Len(crState.registries) : RegistryDone(crState, i)

\* C22: once CloseInstantUpdatesStream has run for a deleted machine-identity
\* CR the registry of the CR is closed, whether or not a connection was in
\* the slot, so that no reader, health monitor or reconnect loop of the CR
\* keeps running or installs a connection later
C22_StreamClosedAfterDeletion ==
    (crState.closing = "called" /\ closer.pc = "idle") => ctxDone

\* C23: every event that is no ping and that the registry of a CR with an
\* open stream delivers puts one synthetic reconcile event for the CR on the
\* controller's event channel, whatever errors were reported before it
C23_EveryEventForwarded == crState.eventCh = crState.delivered

\* C24: the entry of a CR has empty authDetails if and only if no
\* authentication for the CR has succeeded since the entry was made; a
\* reconcile authenticates only when authDetails is empty, stores the result
\* on success, and on failure returns an error before any fetch or write and
\* leaves the authDetails of the entry empty
C24_EmptyIffNeverAuthenticated ==
    /\ crState.entry # << >> =>
          (crState.entry[1].AuthDetails = NoAuthDetails <=> crState.succeeded = 0)
    /\ \A result \in AuthResults :
          LET empty == crState.entry = << >> \/ crState.entry[1].AuthDetails = NoAuthDetails
          IN ~ENABLED ( /\ Reconcile(result)
                        /\ ~ IF ~empty
                             THEN /\ ~crState'.did.authenticated
                                  /\ crState'.entry = crState.entry
                             ELSE IF result.err = NoErr
                             THEN /\ crState'.did.authenticated
                                  /\ crState'.entry[1].AuthDetails = result.authDetails
                                  /\ crState'.entry[1].AuthDetails # NoAuthDetails
                             ELSE /\ crState'.did.authenticated
                                  /\ crState'.did.err # NoErr
                                  /\ ~crState'.did.fetched
                                  /\ crState'.entry[1].AuthDetails = NoAuthDetails )

\* a reconcile failed to authenticate and returned before the fetch, the
\* entry still without details
C24_FailedBeforeFetch ==
    /\ crState.entry # << >>
    /\ crState.entry[1].AuthDetails = NoAuthDetails
    /\ crState.did.authenticated /\ crState.did.err # NoErr /\ ~crState.did.fetched

\* the seconds of a unit
UnitSeconds(unit) ==
    CASE unit = "s" -> 1 [] unit = "m" -> 60 [] unit = "h" -> 3600
      [] unit = "d" -> 86400 [] unit = "w" -> 604800

\* n times seconds times 10^9, in bytes enough to hold it
Nanoseconds(n, seconds) ==
    LET wide(x) == Bytes(x, Int64 + 4)
    IN Times(Times(wide(n), wide(seconds)),
             Times(wide(1000), Times(wide(1000), wide(1000))))

\* the int64 d in as many bytes as Nanoseconds gives
SignExtend(d) == d \o [i \in 1..4 |-> IF d[Int64] >= 128 THEN 255 ELSE 0]

\* C25: ConvertIntervalToDuration succeeds exactly on the nil or empty
\* interval, giving 0, and on <N><unit> with unit one of s, m, h, d, w and,
\* for s, N >= 5; on success the duration is N times the unit (d = 24 h,
\* w = 7 d); every other input yields an error
C25_DurationIsNTimesUnit ==
    resync.out # << >> =>
        LET out == resync.out[1]
        IN IF resync.interval = << >> \/ resync.interval[1] = << >>
           THEN out.err = NoErr /\ out.duration = Duration(0)
           ELSE LET interval == resync.interval[1]
                    unit == interval[Len(interval)]
                    N == Atoi(SubSeq(interval, 1, Len(interval) - 1))
                    formed == /\ Len(interval) >= 2
                              /\ N.err = NoErr
                              /\ unit \in {"s", "m", "h", "d", "w"}
                              /\ unit = "s" => N.n >= 5
                IN /\ out.err = NoErr <=> formed
                   /\ formed => SignExtend(out.duration) = Nanoseconds(N.n, UnitSeconds(unit))

\* the calls of onError made by readers for a read error
Reports ==
    Len(SelectSeq(conn, LAMBDA meta : meta.reported # NoErr))
      + Count(orphans, {o \in BagToSet(orphans) : o.reported # NoErr})

\* the message of the error makes processStream return without a word
ClosedOrEOF(err) == Contains(ToLower(err), <<"closed">>) \/ Contains(ToLower(err), <<"eof">>)

C27_NoConnectedWithoutReader ==
    (conn # << >> /\ conn[1].reader = "done") => ~IsConnected

\* C28: an attempt of a reconnect loop whose open succeeds while the registry
\* is not closed puts the new connection, with the loop's params and a
\* running reader, in the slot, and the loop returns: no further attempt, no
\* onError and no onReconnect; the registry is connected when the attempt
\* returns
C28_SuccessfulAttemptConnects ==
    \A lp \in BagToSet(loops) :
        (lp.pc = "attempt" /\ ~ctxDone) =>
            ~ENABLED ( /\ LoopAttempt(lp, NoErr)
                       /\ ~( /\ conn' = <<NewMeta(lp.params)>>
                             /\ conn'[1].reader = "scan"
                             /\ loops' = Remove(loops, lp)
                             /\ IsConnected' ) )

\* a loop whose first attempt failed is about to make another, which the
\* upstream accepts, on an open registry with an empty slot
C28_SecondAttemptAccepted ==
    \E lp \in BagToSet(loops) :
        /\ lp.pc = "attempt" /\ lp.attempt >= 1
        /\ ~ctxDone /\ conn = << >>
        /\ ENABLED LoopAttempt(lp, NoErr)

\* C29: a reconnect loop is started with the params of the connection whose
\* read error or staleness triggered it, and the connection it installs
\* carries them: never empty params, never those of another connection
C29_ReconnectCarriesTriggerParams ==
    /\ \A rd \in Readers, err \in ReadErrors :
          ~ENABLED ( /\ ReaderError(rd, err)
                     /\ loops' # loops
                     /\ loops' # Add(loops, NewLoop(rd.meta.params, requestFn)) )
    /\ (monitor.pc = "stale" /\ monitor.same) =>
          ~ENABLED ( /\ CheckStale
                     /\ loops' # loops
                     /\ loops' # Add(loops, NewLoop(conn[1].params, monitor.fn)) )
    /\ \A lp \in BagToSet(loops) :
          ~ENABLED ( /\ LoopAttempt(lp, NoErr)
                     /\ conn' # conn
                     /\ conn'[1].params # lp.params )
    /\ \A lp \in BagToSet(loops) : lp.params # EmptyParams

\* C30: whenever the context of a ConnectionMeta is done its body has been
\* closed: no path cancels a connection's context and leaves the body open
\* with the reader blocked on the read
C30_DoneContextClosedBody ==
    \A rd \in Readers : CtxDone(rd.meta) => BodyClosed(rd.meta)

\* C31: a goroutine that is inside onEvent, onError or onReconnect holds
\* nothing of r.mu, and a call of the registry made from a callback never
\* waits for r.mu while its own goroutine holds it: it gets the mutex at once
\* or waits for another goroutine
C31_NoCallbackUnderMutex ==
    \A t \in Tasks :
        /\ InCallback(flow[t]) => flow[t].held = ""
        /\ flow[t].call \in {"Lock", "RLock"} =>
              \/ ENABLED Locked(t)
              \/ \E u \in Tasks \ {t} : flow[u].held # "" \/ flow[u].call \in {"W", "R"}

\* the onError of the reconnect loop, called after a failed attempt, is
\* inside a SubscribeWithParams and holds r.mu
C31_SubscribeFromOnError ==
    /\ flow.reconnectLoop.pc = "onError"
    /\ flow.reconnectLoop.call = "W"

\* C32: a callback that panics ends like one that returns: after onEvent the
\* reader scans on, after onError the reader goes to triggerReconnect, and
\* the loop after onError goes to its next wait (to onReconnect once the
\* attempts are used up)
C32_PanicDoesNotEndTask ==
    /\ flow.processStream.pc = "onEvent" =>
          ~ENABLED (Callback("processStream", TRUE) /\ flow'.processStream.pc # "Scan")
    /\ flow.processStream.pc = "onError" =>
          ~ENABLED (Callback("processStream", TRUE) /\ flow'.processStream.pc # "triggerReconnect")
    /\ flow.reconnectLoop.pc = "onError" =>
          ~ENABLED ( /\ Callback("reconnectLoop", TRUE)
                     /\ ~( /\ flow'.reconnectLoop.attempt = flow.reconnectLoop.attempt + 1
                           /\ flow'.reconnectLoop.pc =
                                 IF flow.reconnectLoop.attempt + 1 < MaxRetries
                                 THEN "wait" ELSE "onReconnect" ) )
    /\ flow.reconnectLoop.pc = "onReconnect" =>
          ~ENABLED (Callback("reconnectLoop", TRUE) /\ flow'.reconnectLoop.pc # "none")

\* the onEvent of the reader panicked and the reader is scanning again, and
\* the onError of the loop panicked after its first attempt and the loop is
\* waiting for its second
C32_RecoveredAndRunning ==
    /\ flow.processStream.recovered /\ flow.processStream.pc = "Scan"
    /\ flow.reconnectLoop.recovered /\ flow.reconnectLoop.pc = "wait"
    /\ flow.reconnectLoop.attempt = 1

\* C33: when a template of a managed descriptor does not compile or does not
\* execute, the reconcile returns an error that ends with the key of a failing
\* template of that descriptor, the descriptor's object is left as it was, the
\* cleanup is not run, and the object of the descriptor processed before it
\* holds what this reconcile wrote
C33_TemplateFailureStopsReconcile ==
    \A secrets \in budget.fetches, failure \in budget.failures, orders \in TemplateOrders :
        LET done == Reconciled(kube, secrets, failure, orders)
            zero == [key \in {<<k>> : k \in {"FOO", "BAR"}} |->
                        [ Value |-> << >>, SecretPath |-> << >> ]]
            failing(kind) ==
                IF kube.refs[kind] = << >> \/ kube.refs[kind][1].Template = << >> THEN {}
                ELSE {key \in DOMAIN kube.refs[kind][1].Template[1].Data :
                         Render(kube.refs[kind][1].Template[1].Data[key], zero).err # ""}
            stopsAt(kind) ==
                /\ \E key \in failing(kind) :
                      /\ Len(done.err) > Len(key)
                      /\ SubSeq(done.err, Len(done.err) - Len(key), Len(done.err))
                            = <<"template">> \o key
                /\ done.objs[kind] = kube.objs[kind]
                /\ ~done.cleaned
        IN /\ failing("Secret") # {} =>
                 stopsAt("Secret") /\ done.objs.ConfigMap = kube.objs.ConfigMap
           /\ (failing("Secret") = {} /\ failing("ConfigMap") # {}) =>
                 /\ stopsAt("ConfigMap")
                 /\ IF kube.refs.Secret = << >> THEN done.objs.Secret = kube.objs.Secret
                    ELSE /\ done.objs.Secret # << >>
                         /\ done.objs.Secret[1].data
                               = Processed(kube.refs.Secret[1].Template, secrets, orders.Secret).data

\* a reconcile created the secret and then failed on a template of the config
\* map descriptor
C33_SecretWrittenConfigMapFailed ==
    /\ kube.returned.err # NoErr
    /\ ~kube.returned.cleaned
    /\ SubSeq(kube.returned.err, 5, 6) = <<"config", "map">>
    /\ kube.did.Secret = "created"
    /\ kube.did.ConfigMap = "none"

\* C34: every upstream request made for a CR, an open by a reconnect attempt
\* included, goes to the host URL of that CR's SetupAPIConfig and trusts the CA
\* of that CR's HandleCACertificate
C34_RequestUsesOwnGlobals ==
    config.request # << >> =>
        /\ HasPrefix(config.request[1].url, HostURL(config.request[1].cr))
        /\ Len(config.request[1].url) = Len(HostURL(config.request[1].cr)) + 8
        /\ config.request[1].RootCAs = CustomResources[config.request[1].cr].CaCertificate

\* C35: of the registries made for a CR at most one has tasks running: when
\* the registry of the entry is replaced, the one it replaces has been closed
\* (its context is done) and its health monitor has returned
C35_AtMostOneRunningRegistry ==
    \A i, j \in 1..Len(crState.registries) :
        (~RegistryDone(crState, i) /\ ~RegistryDone(crState, j)) => i = j

\* C36: the cleanup of a reconcile deletes no object that a descriptor of the
\* CR names, whatever the descriptor's creation policy and whether or not the
\* object carries the owner reference to the CR
C36_ReferencedObjectSurvivesCleanup ==
    \A kind \in Kinds, secrets \in budget.fetches, failure \in budget.failures :
        ToWrite(kind) => Cleaned(secrets, failure)[kind] = WrittenObjects(secrets)[kind]

\* C37: once a SubscribeWithParams has swapped the connection for one with
\* other params, the reader of the connection it closed calls onEvent no
\* more
C37_OldReaderDispatchesNothing ==
    \A rd \in Readers :
        ( /\ ~rd.slot
          /\ BodyClosed(rd.meta) /\ rd.meta.cancelled
          /\ conn # << >> /\ ~Equals(conn[1].params, rd.meta.params) )
            => ~ENABLED ReaderDispatch(rd)

\* C38: a SubscribeWithParams whose open fails returns an error, leaves the
\* slot empty and starts no reader; a connection that was in the slot has been
\* closed (body closed, context cancelled) and is not put back, and the open
\* operation stored for reconnects is the one just passed
C38_FailedOpenLeavesSlotEmpty ==
    \A params \in budget.params, fn \in budget.fns, res \in OpenErrors \ {NoErr} :
        SubscribeOpens(params) =>
            /\ Subscribed(params, res).err # NoErr
            /\ ~ENABLED ( /\ SubscribeWithParams(params, fn, res)
                          /\ ~( /\ conn' = << >>
                                /\ requestFn' = fn
                                /\ okFn' = okFn
                                /\ BagCardinality(orphans') <= BagCardinality(orphans) + Len(conn)
                                /\ \A o \in BagToSet(orphans') :
                                      \/ BagIn(o, orphans)
                                      \/ /\ conn # << >>
                                         /\ o.params = conn[1].params
                                         /\ BodyClosed(o) /\ o.cancelled ) )

\* a live connection is in the slot, and a subscribe with other params is
\* about to be refused by the upstream
C38_SwapRefused ==
    /\ conn # << >> /\ ~CtxDone(conn[1]) /\ conn[1].reader = "scan"
    /\ \E params \in budget.params, fn \in budget.fns :
          /\ ~Equals(conn[1].params, params)
          /\ ENABLED SubscribeWithParams(params, fn, UnsuccessfulResponse(ServerErrorMessage))

\* C39: once Close has returned, no reconnect loop and no health monitor is
\* left that could call the open operation, and every SubscribeWithParams
\* returns "registry is closed" without calling open; it leaves the slot empty
\* and starts no reader (a connection it finds in the slot is closed)
C39_NoOpenAfterClose ==
    closer.returned =>
        /\ \A lp \in BagToSet(loops), res \in OpenErrors :
              ~createConnectionLocked(conn, orphans, lp.params, res).opened
        /\ monitor.pc = "stale" => (~monitor.same \/ monitor.fn = 0 \/ ctxDone)
        /\ \A params \in budget.params, fn \in budget.fns, res \in OpenErrors :
              /\ ~Subscribed(params, res).opened
              /\ Subscribed(params, res).err = RegistryClosedErr
              /\ ~ENABLED ( /\ SubscribeWithParams(params, fn, res)
                            /\ ~( /\ conn' = << >>
                                  /\ okFn' = okFn
                                  /\ \A o \in BagToSet(orphans') :
                                        BagIn(o, orphans) \/ (BodyClosed(o) /\ o.cancelled) ) )

\* Close has returned and left a connection in the slot (it was installed
\* between Close's unlock and its cancel); a caller is about to subscribe and
\* the upstream would accept the open
C39_SubscribeAfterClose ==
    /\ closer.returned
    /\ conn # << >>
    /\ \E params \in budget.params, fn \in budget.fns : ENABLED SubscribeWithParams(params, fn, NoErr)

\* C40: the event handed to onEvent at an empty line holds the id, the name
\* and the data lines of the frame that this empty line ends, and nothing of
\* the frames before it
C40_NoFieldCarriedOver ==
    \A k \in 1..Len(stream.did) :
        (stream.did[k] # << >> /\ ~stream.did[k][1].ping) =>
            stream.did[k][1].event = Written(stream.sent[k])

====
